---- MODULE Spec2Model ----
(***************************************************************************)
(* A model of the tokio-io framing and buffering core:                     *)
(*   FramedRead2  (src/src/framed_read.rs)   SpecFramedRead                *)
(*   FramedWrite2 (src/src/framed_write.rs)  SpecFramedWrite               *)
(*   BufWriter    (src/src/buf_writer.rs)    SpecBufWriter                 *)
(*   BufReader    (src/src/buf_reader.rs)    SpecBufReader                 *)
(*   ByteSink     (src/src/byte_sink.rs)     SpecByteSink                  *)
(*   EasyBuf      (src/src/frame.rs)         SpecEasyBuf                   *)
(* Each object is one record variable whose fields carry the names of the  *)
(* struct's fields; next to it stands a record for the object's            *)
(* collaborators (the underlying reader or writer, the codec) and for the  *)
(* history of the calls made, which the properties are stated over.        *)
(* A handler is one action.  The loops inside a handler consult the        *)
(* underlying object several times; the set-valued RECURSIVE operators     *)
(* below return every state in which the handler can return, one for each  *)
(* sequence of answers of the underlying object.                           *)
(***************************************************************************)
EXTENDS Integers, Sequences, FiniteSets, TLC

VARIABLES framedRead, readIo, framedWrite, writeIo, bufWriter, bufWriterIo,
          bufReader, bufReaderIo, byteSink, byteSinkIo, easyBuf, easyBufIo,
          easyFramed, easyFramedIo

frVars == <<framedRead, readIo>>

fwVars == <<framedWrite, writeIo>>

bwVars == <<bufWriter, bufWriterIo>>

brVars == <<bufReader, bufReaderIo>>

bsVars == <<byteSink, byteSinkIo>>

ebVars == <<easyBuf, easyBufIo>>

efVars == <<easyFramed, easyFramedIo>>

vars == <<frVars, fwVars, bwVars, brVars, bsVars, ebVars, efVars>>

\* ------------------------------------------------------------------------
\* Generic sequence helpers
\* ------------------------------------------------------------------------

Min(a, b) == IF a <= b THEN a ELSE b

Take(s, n) == SubSeq(s, 1, n)

Drop(s, n) == SubSeq(s, n + 1, Len(s))

IsPrefix(p, s) == Len(p) <= Len(s) /\ Take(s, Len(p)) = p

Last(s) == s[Len(s)]

Iota(n) == [i \in 1..n |-> i]

Merge(f, g) == [k \in DOMAIN f \cup DOMAIN g |-> IF k \in DOMAIN f THEN f[k] ELSE g[k]]

Restrict(f, ks) == [k \in ks |-> f[k]]

\* ------------------------------------------------------------------------
\* Long byte strings.  The 8 KiB thresholds of FramedWrite and ByteSink need
\* byte strings of more than 8192 bytes; such a string is kept as a sequence
\* of runs [id, lo, hi], the bytes lo..hi of the source numbered id (an
\* encoded item, a reader), with adjacent runs of one source joined.  Every
\* byte keeps its identity, so loss, duplication and reordering show.
\* ------------------------------------------------------------------------

Run(id, lo, hi) == [id |-> id, lo |-> lo, hi |-> hi]

RECURSIVE RLen(_)
RLen(rs) == IF rs = <<>> THEN 0 ELSE (rs[1].hi - rs[1].lo + 1) + RLen(Tail(rs))

RCat(a, b) ==
    IF a = <<>> THEN b
    ELSE IF b = <<>> THEN a
    ELSE LET x == a[Len(a)]
             y == b[1]
         IN  IF x.id = y.id /\ x.hi + 1 = y.lo
             THEN SubSeq(a, 1, Len(a) - 1) \o <<Run(x.id, x.lo, y.hi)>> \o Tail(b)
             ELSE a \o b

RECURSIVE RDrop(_, _)
RDrop(rs, n) ==
    IF n = 0 \/ rs = <<>> THEN rs
    ELSE LET h == rs[1]
             l == h.hi - h.lo + 1
         IN  IF n >= l THEN RDrop(Tail(rs), n - l)
             ELSE <<Run(h.id, h.lo + n, h.hi)>> \o Tail(rs)

RECURSIVE RTake(_, _)
RTake(rs, n) ==
    IF n = 0 \/ rs = <<>> THEN <<>>
    ELSE LET h == rs[1]
             l == h.hi - h.lo + 1
         IN  IF n >= l THEN <<h>> \o RTake(Tail(rs), n - l)
             ELSE <<Run(h.id, h.lo, h.lo + n - 1)>>

\* ------------------------------------------------------------------------
\* 64-bit integers.  The positions of a seekable reader are u64 and the
\* offsets of a seek i64; a value is kept as its four 16-bit limbs, the
\* most significant first, an i64 in two's complement, so that the
\* arithmetic below is the one of the 64-bit registers.
\* ------------------------------------------------------------------------

\* The base of a limb.
W16 == 65536

\* n as u64, for 0 <= n < 2^31.
U64(n) == <<0, 0, n \div W16, n % W16>>

\* u64::wrapping_add
Add64(a, b) ==
    LET s4 == a[4] + b[4]
        s3 == a[3] + b[3] + s4 \div W16
        s2 == a[2] + b[2] + s3 \div W16
        s1 == a[1] + b[1] + s2 \div W16
    IN  <<s1 % W16, s2 % W16, s3 % W16, s4 % W16>>

\* wrapping_neg
Neg64(a) == Add64([i \in 1..4 |-> W16 - 1 - a[i]], U64(1))

\* wrapping_sub
Sub64(a, b) == Add64(a, Neg64(b))

\* n as i64, for -2^31 < n < 2^31.
I64(n) == IF n >= 0 THEN U64(n) ELSE Neg64(U64(-n))

\* The sign bit of an i64.
IsNegative(a) == a[1] >= W16 \div 2

\* a < b as u64.
Less64(a, b) ==
    \E i \in 1..4 : a[i] < b[i] /\ \A j \in 1..(i - 1) : a[j] = b[j]

I64_MIN == <<W16 \div 2, 0, 0, 0>>

I64_MAX == <<W16 \div 2 - 1, W16 - 1, W16 - 1, W16 - 1>>

U64_MAX == <<W16 - 1, W16 - 1, W16 - 1, W16 - 1>>

\* i64::checked_sub: None when the difference leaves the range of i64.
CheckedSub(n, r) ==
    LET d == Sub64(n, r) IN
    [some |-> ~(IsNegative(n) # IsNegative(r) /\ IsNegative(d) # IsNegative(n)), v |-> d]

\* ------------------------------------------------------------------------
\* Constructors.  A specification starts the object it is about from its
\* constructor and leaves the other objects as constructed.
\* ------------------------------------------------------------------------

\* framed_read2(): an empty buffer, eof and is_readable false.
framed_read2 == [buffer |-> <<>>, eof |-> FALSE, is_readable |-> FALSE]

\* The byte source: input is everything it will deliver, delivered the
\* count already read; the rest is the history of the polls.  lastDecode is
\* what the most recent decoder call returned, undecoded whether a
\* successful read_buf has not been followed by a decoder call yet, frames
\* the frames the decoder has returned; readableReads, hastyReads and
\* staleReads count the read_buf calls made with is_readable set, with
\* undecoded set, and after a decoder call that returned something else
\* than None (or, before any decoder call, on a non-empty buffer).
ReadIoStart(n, m) ==
    [input |-> Iota(n), delivered |-> 0, eofMode |-> m,
     wouldBlocks |-> 0, readErrs |-> 0,
     reads |-> 0, decodes |-> 0, eofDecodes |-> 0,
     eofLen |-> -1, ret |-> [t |-> "Init", v |-> 0], out |-> <<>>,
     lastDecode |-> "none", undecoded |-> FALSE, frames |-> <<>>,
     readableReads |-> 0, hastyReads |-> 0, staleReads |-> 0]

FramedReadIdle == framedRead = framed_read2 /\ readIo = ReadIoStart(0, "default")

\* framed_write2(): an empty buffer.
framed_write2 == [buffer |-> <<>>]

\* The byte sink: written is what the underlying writer has accepted; the
\* rest is the history of the calls.  item is the item the last start_send
\* was given, lenOnEntry the buffer length it found and lenAfterFlush the
\* length it saw after its poll_complete attempt (-1: none was made),
\* shutdowns the count of shutdown calls made on the underlying writer.
WriteIoStart ==
    [written |-> <<>>, accepted |-> <<>>, offered |-> 0, calls |-> 0,
     encodes |-> 0, shorts |-> 0, shutdowns |-> 0,
     item |-> [id |-> 0, len |-> 0], lenOnEntry |-> 0,
     lenAfterFlush |-> -1, lastIo |-> "none", op |-> "none",
     ret |-> [t |-> "Init", v |-> 0]]

FramedWriteIdle == framedWrite = framed_write2 /\ writeIo = WriteIoStart

\* BufWriter::with_capacity(cap, inner): buf and position are the bytes and
\* the position of the io::Cursor<BytesMut>, capacity the BytesMut's.
BufWriterWithCapacity(cap) == [buf |-> <<>>, position |-> 0, capacity |-> cap]

\* The inner writer and the caller: received is what the inner writer has
\* accepted, data the bytes the caller submits piece by piece, sent the
\* count of them BufWriter::write has accepted so far, failures the count
\* of inner calls that did not succeed, taken the count of bytes the last
\* write_buf consumed from its source, lastIo the answer of the inner
\* writer that ended the last call ("none": the call ended otherwise), len
\* the length of the source of the last write or write_buf.
BufWriterIoStart(n) ==
    [received |-> <<>>, data |-> Iota(n), sent |-> 0, failures |-> 0,
     innerWrites |-> 0, taken |-> 0, lastIo |-> "none", len |-> 0, op |-> "none",
     ret |-> [t |-> "Init", v |-> 0]]

BufWriterIdle == bufWriter = BufWriterWithCapacity(1) /\ bufWriterIo = BufWriterIoStart(0)

\* BufReader::with_capacity(cap, inner): a zeroed buffer of cap bytes.
BufReaderWithCapacity(cap) == [buf |-> [i \in 1..cap |-> 0], pos |-> 0, cap |-> 0]

\* A SeekFrom: whence is "Start", "End" or "Current" and n the u64
\* position or the i64 offset.  NoSeek stands for no seek made.
SeekFrom(whence, n) == [whence |-> whence, n |-> n]

NoSeek == SeekFrom("None", U64(0))

\* The inner reader and the caller: kind tells the inner reader, "data" for
\* one over the finite byte string data, which refuses to seek to a
\* negative or overflowing position, and "position" for the PositionReader
\* of the tests, whose byte at a position is the position modulo 256 and
\* whose seeks wrap; offset is the inner reader's position, out the bytes
\* the caller has been handed, failures the count of inner calls that
\* failed, calls the count of calls made on the BufReader, got the slice
\* the last fill_buf returned, arg the SeekFrom the last seek was given,
\* seeks the seeks it made on the inner reader and result the position it
\* returned.  Kind "short" is the ShortReader of the tests, which answers
\* its reads with the counts of lengths, one after the other, then with 0,
\* and writes nothing; len is the length of the destination of the last
\* read and counts the counts the reads of a ShortReader returned.
BufReaderIoOf(kind, n) ==
    [kind |-> kind, data |-> Iota(n), offset |-> U64(0), out |-> <<>>,
     failures |-> 0, innerReads |-> 0, bypasses |-> 0, calls |-> 0,
     got |-> <<>>, arg |-> NoSeek, seeks |-> <<>>, result |-> U64(0),
     lengths |-> <<>>, len |-> 0, rem |-> 0, counts |-> <<>>,
     op |-> "none", ret |-> [t |-> "Init", v |-> 0]]

BufReaderIoStart(n) == BufReaderIoOf("data", n)

BufReaderIdle == bufReader = BufReaderWithCapacity(1) /\ bufReaderIo = BufReaderIoStart(0)

BUFFER_SIZE == 8192

\* Option<R>::None.  A reader is [id, len, pos]: its number in the order of
\* the offers, the count of its bytes and the count already read from it.
NoReader == [id |-> 0, len |-> 0, pos |-> 0]

\* byte_sink(write): no reader, both cursors 0, a zeroed buffer of
\* BUFFER_SIZE bytes (the bytes of source 0).
byte_sink ==
    [read |-> NoReader, write_cursor |-> 0, read_cursor |-> 0,
     buffer |-> <<Run(0, 1, BUFFER_SIZE)>>]

\* The writer and the caller: written is what the writer has accepted,
\* accepted the readers start_send has stored, offered the count of readers
\* offered, failures the count of failing answers of the reader and writer,
\* zeros the count of writes of the last call that returned 0 for a
\* non-empty slice, resumed the count of staged bytes the last call found.
ByteSinkIoStart ==
    [written |-> <<>>, accepted |-> <<>>, offered |-> 0, failures |-> 0,
     shorts |-> 0, calls |-> 0, lastIo |-> "none", op |-> "none",
     zeros |-> 0, resumed |-> 0, ret |-> [t |-> "Init", v |-> 0]]

ByteSinkIdle == byteSink = byte_sink /\ byteSinkIo = ByteSinkIoStart

\* The EasyBuf windows a program holds, and the vectors behind them.
MaxWindows == 3

Windows == 1..MaxWindows

Vectors == 1..MaxWindows

\* A dropped (or not yet created) EasyBuf.
NoWindow == [live |-> FALSE, buf |-> 0, start |-> 0, end |-> 0]

\* EasyBuf::from(vec) as window 1: heap[b] is the Vec<u8> behind the Arc
\* numbered b, windows[w] the EasyBuf numbered w.
EasyBufFrom(vec) ==
    [heap |-> [b \in Vectors |-> IF b = 1 THEN vec ELSE <<>>],
     windows |-> [w \in Windows |->
                    IF w = 1 THEN [live |-> TRUE, buf |-> 1, start |-> 0, end |-> Len(vec)]
                    ELSE NoWindow]]

\* The caller: handle is the window whose EasyBufMut is alive (0: none),
\* op and w the last operation and the window it was made on, copied
\* whether the last get_mut took the copying path, ops the count of
\* operations made, at the index the last split_off or drain_to was given.
EasyBufIoStart ==
    [handle |-> 0, op |-> "none", w |-> 0, copied |-> FALSE, ops |-> 0, at |-> 0]

EasyBufIdle == easyBuf = EasyBufFrom(<<>>) /\ easyBufIo = EasyBufIoStart

\* frame::framed(io, codec): nothing read, the end of the stream not seen.
\* rd is kept as the bytes the EasyBuf shows; the decoder below leaves it
\* by drain_to only, so its end stays the end of the vector and get_mut
\* hands out exactly those bytes.
framed == [eof |-> FALSE, rd |-> <<>>]

\* The upstream of a Framed and its caller: input is the count of bytes the
\* upstream will deliver (those of source 1), delivered the count it has,
\* wouldBlocks and readErrs the failed reads, reads the reads of the last
\* poll, polls the count of polls and ret the answer of the last.
EasyFramedIoStart(n) ==
    [input |-> n, delivered |-> 0, wouldBlocks |-> 0, readErrs |-> 0,
     reads |-> 0, polls |-> 0, ret |-> [t |-> "none", v |-> <<>>]]

EasyFramedIdle == easyFramed = framed /\ easyFramedIo = EasyFramedIoStart(0)

\* ------------------------------------------------------------------------
\* FramedRead2 (framed_read.rs)
\* ------------------------------------------------------------------------

\* Bounds of the FramedRead model.
MaxInput == 8

MaxWouldBlock == 2

MaxReadErr == 1

MaxPolls == 7

\* The test decoder's frame size (U32Decoder reads 4 bytes).
FrameLen == 4

\* bytes' get_u32::<BigEndian> on a 4-byte slice.
BE32(s) == s[1] * 16777216 + s[2] * 65536 + s[3] * 256 + s[4]

\* The decode_eof implementations a codec may supply: the trait's default,
\* an override that returns all remaining bytes as the last frame, and an
\* override that returns the first remaining byte as a frame.
EofModes == {"default", "rest", "one"}

\* Value a codec override makes of a run of bytes (an injective tag).
RECURSIVE Pack(_)
Pack(s) == IF s = <<>> THEN 1 ELSE s[1] + 16 * Pack(Drop(s, 1))

\* U32Decoder::decode: None on fewer than 4 bytes, else drain_to(4) and the
\* big-endian value.
Decode(buf) ==
    IF Len(buf) < FrameLen
    THEN [t |-> "None", v |-> 0, buf |-> buf]
    ELSE [t |-> "Some", v |-> BE32(Take(buf, FrameLen)), buf |-> Drop(buf, FrameLen)]

\* A default decode_eof that reports the end of the stream instead of the
\* error (mutant of DecodeEofDefault).
DecodeEofSilent(buf) ==
    LET d == Decode(buf) IN
    IF d.t = "Some" THEN d
    ELSE [t |-> "None", v |-> 0, buf |-> d.buf]

\* Decoder::decode_eof, default body: decode, and None becomes the
\* "bytes remaining on stream" error.
DecodeEofDefault(buf) ==
    LET d == Decode(buf) IN
    IF d.t = "Some" THEN d
    ELSE [t |-> "ErrBytesRemaining", v |-> 0, buf |-> d.buf]

\* A decoder whose decode fails on the frame after the first: it takes the
\* frame's first byte off the buffer and returns an error.
DecodeFailing(buf) ==
    IF Len(buf) >= FrameLen /\ buf[1] = FrameLen + 1
    THEN [t |-> "ErrDecode", v |-> 0, buf |-> Drop(buf, 1)]
    ELSE Decode(buf)

\* self.inner.decode(&mut self.buffer) for the codec in use.
DecodeOf(mode, buf) == IF mode = "failing" THEN DecodeFailing(buf) ELSE Decode(buf)

\* The failing decoder has the default decode_eof.
DecodeEofFailing(buf) ==
    LET d == DecodeFailing(buf) IN
    IF d.t = "None" THEN [t |-> "ErrBytesRemaining", v |-> 0, buf |-> d.buf] ELSE d

DecodeEof(mode, buf) ==
    CASE mode = "default" -> DecodeEofDefault(buf)
      [] mode = "failing" -> DecodeEofFailing(buf)
      [] mode = "rest" -> [t |-> "Some", v |-> Pack(buf), buf |-> <<>>]
      [] mode = "one" -> [t |-> "Some", v |-> Pack(Take(buf, 1)), buf |-> Drop(buf, 1)]

\* The answers the underlying AsyncRead can give to one read_buf call:
\* WouldBlock, an I/O error, a non-empty packet of the bytes not yet
\* delivered, or 0 once the input is exhausted.
ReadAnswers(s) ==
    {[t |-> "WouldBlock", n |-> 0] : x \in {1} \cap (IF s.wouldBlocks < MaxWouldBlock THEN {1} ELSE {})}
    \cup {[t |-> "Err", n |-> 0] : x \in {1} \cap (IF s.readErrs < MaxReadErr THEN {1} ELSE {})}
    \cup {[t |-> "Ok", n |-> n] : n \in 1..(Len(s.input) - s.delivered)}
    \cup {[t |-> "Ok", n |-> 0] : x \in {1} \cap (IF s.delivered = Len(s.input) THEN {1} ELSE {})}

\* One poll, as a function from the state at a loop head to the set of states
\* at return.  s merges the fields of FramedRead2 with those of readIo.
Returned(s, t, v) == [s EXCEPT !.ret = [t |-> t, v |-> v]]

\* A read_buf that forgets what was buffered (mutant of ReadOk).
ReadOkReplacing(s, n) ==
    [s EXCEPT !.buffer = SubSeq(s.input, s.delivered + 1, s.delivered + n),
              !.delivered = @ + n,
              !.eof = IF n = 0 THEN TRUE ELSE @,
              !.eofLen = IF n = 0 THEN Len(s.buffer) ELSE @,
              !.undecoded = TRUE,
              !.is_readable = TRUE]

\* A read_buf of 0 bytes after which eof is set and is_readable is not
\* (mutant of ReadOk).
ReadOkEofUnreadable(s, n) ==
    [s EXCEPT !.buffer = @ \o SubSeq(s.input, s.delivered + 1, s.delivered + n),
              !.delivered = @ + n,
              !.eof = IF n = 0 THEN TRUE ELSE @,
              !.eofLen = IF n = 0 THEN Len(s.buffer) ELSE @,
              !.undecoded = TRUE,
              !.is_readable = (n # 0)]

\* read_buf returned n: the bytes are appended to the buffer, 0 sets eof, and
\* is_readable is set (lines 219-224).  eofLen records the buffer length at
\* the moment the source reported EOF.
ReadOk(s, n) ==
    [s EXCEPT !.buffer = @ \o SubSeq(s.input, s.delivered + 1, s.delivered + n),
              !.delivered = @ + n,
              !.eof = IF n = 0 THEN TRUE ELSE @,
              !.eofLen = IF n = 0 THEN Len(s.buffer) ELSE @,
              !.undecoded = TRUE,
              !.is_readable = TRUE]

\* The decoder has been called and has answered d: it has taken its frame
\* off the buffer.  kind is "eof" for decode_eof and the answer's tag for
\* decode.
Decoded(s, d, kind) ==
    [s EXCEPT !.buffer = d.buf,
              !.lastDecode = kind,
              !.undecoded = FALSE,
              !.frames = IF d.t = "Some" THEN Append(@, d.v) ELSE @]

\* A frame the decoder returned that poll keeps for itself (mutant of
\* ReturnFrame).
ReturnFrameLost(s, v) == Returned(s, "NotReady", 0)

\* return Ok(Async::Ready(Some(frame))) (lines 200 and 208).
ReturnFrame(s, v) == Returned(s, "Some", v)

\* An eof branch that forgets the end of the stream once it has reported it
\* (mutant of AtEof).
AtEofRestart(s) ==
    IF s.buffer = <<>>
    THEN {Returned([s EXCEPT !.eof = FALSE], "None", 0)}
    ELSE LET d == DecodeEof(s.eofMode, s.buffer)
             r == Decoded([s EXCEPT !.eofDecodes = @ + 1], d, "eof")
         IN  {IF d.t = "Some" THEN ReturnFrame(r, d.v) ELSE Returned(r, d.t, d.v)}

\* An eof branch without the is_empty test (mutant of AtEof).
AtEofAlways(s) ==
    LET d == DecodeEof(s.eofMode, s.buffer)
        r == Decoded([s EXCEPT !.eofDecodes = @ + 1], d, "eof")
    IN  {IF d.t = "Some" THEN ReturnFrame(r, d.v) ELSE Returned(r, d.t, d.v)}

\* is_readable && eof (lines 195-202): Ready(None) on an empty buffer, else
\* one decode_eof call whose frame or error is returned.
AtEof(s) ==
    IF s.buffer = <<>>
    THEN {Returned(s, "None", 0)}
    ELSE LET d == DecodeEof(s.eofMode, s.buffer)
             r == Decoded([s EXCEPT !.eofDecodes = @ + 1], d, "eof")
         IN  {IF d.t = "Some" THEN ReturnFrame(r, d.v) ELSE Returned(r, d.t, d.v)}

\* A WouldBlock that throws the buffered bytes away (mutant of
\* ReadWouldBlock).
ReadWouldBlockClearing(s) ==
    Returned([s EXCEPT !.wouldBlocks = @ + 1, !.buffer = <<>>], "NotReady", 0)

\* read_buf met WouldBlock: try_ready! returns NotReady (line 220); nothing
\* of the object has been touched.
ReadWouldBlock(s) == Returned([s EXCEPT !.wouldBlocks = @ + 1], "NotReady", 0)

\* A read error taken for WouldBlock (mutant of ReadErr).
ReadErrAsNotReady(s) == Returned([s EXCEPT !.readErrs = @ + 1], "NotReady", 0)

\* read_buf failed with another error: try_ready! returns it (line 220).
ReadErr(s) == Returned([s EXCEPT !.readErrs = @ + 1], "ErrIo", 0)

\* PollLoop is the head of the loop (lines 190-212); Refill is the rest of
\* its body (lines 214-224).
RECURSIVE PollLoop(_)
Refill(s) ==
    IF s.eof
    THEN {Returned(s, "Panic", 0)}          \* assert!(!self.eof)
    ELSE UNION {
        LET r == [s EXCEPT
                     !.reads = @ + 1,
                     !.readableReads = @ + (IF s.is_readable THEN 1 ELSE 0),
                     !.hastyReads = @ + (IF s.undecoded THEN 1 ELSE 0),
                     !.staleReads = @ + (IF \/ s.lastDecode = "None"
                                            \/ s.lastDecode = "none" /\ s.buffer = <<>>
                                         THEN 0 ELSE 1)] IN
        CASE a.t = "WouldBlock" -> {ReadWouldBlock(r)}
          [] a.t = "Err" -> {ReadErr(r)}
          [] a.t = "Ok" -> PollLoop(ReadOk(r, a.n))
        : a \in ReadAnswers(s)}

\* A loop head that leaves is_readable set when decode returns None (mutant
\* of PollLoop).
PollLoopKeepReadable(s) ==
    IF s.is_readable
    THEN IF s.eof
         THEN AtEof(s)
         ELSE LET d == DecodeOf(s.eofMode, s.buffer)
                  r == Decoded([s EXCEPT !.decodes = @ + 1], d, d.t)
              IN  IF d.t = "Some"
                  THEN {ReturnFrame(r, d.v)}
                  ELSE IF d.t = "None"
                  THEN Refill(r)
                  ELSE {Returned(r, d.t, 0)}
    ELSE Refill(s)

PollLoop(s) ==
    IF s.is_readable
    THEN IF s.eof
         THEN AtEof(s)
         ELSE LET d == DecodeOf(s.eofMode, s.buffer)
                  r == Decoded([s EXCEPT !.decodes = @ + 1], d, d.t)
              IN  IF d.t = "Some"
                  THEN {ReturnFrame(r, d.v)}
                  ELSE IF d.t = "None"
                  THEN Refill([r EXCEPT !.is_readable = FALSE])
                  ELSE {Returned(r, d.t, 0)}
    ELSE Refill(s)

FrFields == {"buffer", "eof", "is_readable"}

InitFramedRead ==
    /\ framedRead = framed_read2
    /\ \E n \in 0..MaxInput, m \in EofModes : readIo = ReadIoStart(n, m)
    /\ FramedWriteIdle
    /\ BufWriterIdle
    /\ BufReaderIdle
    /\ ByteSinkIdle
    /\ EasyBufIdle
    /\ EasyFramedIdle

\* FramedRead2::poll
Poll ==
    /\ Len(readIo.out) < MaxPolls
    /\ \E s \in PollLoop(Merge(framedRead, readIo)) :
          /\ framedRead' = Restrict(s, FrFields)
          /\ readIo' = [Restrict(s, DOMAIN readIo) EXCEPT !.out = Append(@, s.ret)]
    /\ UNCHANGED <<fwVars, bwVars, brVars, bsVars, ebVars, efVars>>

NextFramedRead == Poll

SpecFramedRead == InitFramedRead /\ [][NextFramedRead]_vars

\* The codecs of the model of polls that go on after errors: the failing
\* decoder and the one whose decode_eof returns a byte at a time.
ErrModes == {"failing", "one"}

InitFramedReadErrs ==
    /\ framedRead = framed_read2
    /\ \E n \in 0..MaxInput, m \in ErrModes : readIo = ReadIoStart(n, m)
    /\ FramedWriteIdle
    /\ BufWriterIdle
    /\ BufReaderIdle
    /\ ByteSinkIdle
    /\ EasyBufIdle
    /\ EasyFramedIdle

SpecFramedReadErrs == InitFramedReadErrs /\ [][NextFramedRead]_vars

\* ------------------------------------------------------------------------
\* FramedWrite2 (framed_write.rs)
\* ------------------------------------------------------------------------

BACKPRESSURE_BOUNDARY == 8192

\* Bounds of the FramedWrite model: calls made, and short writes the
\* underlying writer makes within one call before it accepts all or blocks.
MaxWriteCalls == 4

MaxShortWrites == 1

\* Lengths of the encodings of the items offered.
ItemLens == {1, 8191, 8192}

\* Encoder::encode: appends the item's bytes to dst.
Encode(item, dst) == RCat(dst, <<Run(item.id, 1, item.len)>>)

\* The byte counts a write offered len bytes may accept.
WriteCounts(len, shorts) ==
    {len} \cup (IF shorts < MaxShortWrites THEN {1, len \div 2} \cap 1..len ELSE {})

\* The answers of the underlying AsyncWrite to write(&buffer).
WriteAnswers(s) ==
    {[t |-> "WouldBlock", n |-> 0], [t |-> "Err", n |-> 0], [t |-> "Ok", n |-> 0]}
    \cup {[t |-> "Ok", n |-> n] : n \in WriteCounts(RLen(s.buffer), s.shorts)}

\* The answers of the underlying AsyncWrite to flush().
FlushAnswers == {"Ok", "WouldBlock", "Err"}

\* A strict boundary test, as the EasyBuf-based Framed has it (mutant of
\* OverBoundary).
OverBoundaryStrict(len) == len > BACKPRESSURE_BOUNDARY

\* self.buffer.len() >= BACKPRESSURE_BOUNDARY (lines 139 and 142).
OverBoundary(len) == len >= BACKPRESSURE_BOUNDARY

\* A write after which the whole buffer is dropped (mutant of WriteOk).
WriteOkClearing(s, n) ==
    [s EXCEPT !.written = RCat(@, RTake(s.buffer, n)),
              !.buffer = <<>>,
              !.shorts = IF n < RLen(s.buffer) THEN @ + 1 ELSE @]

\* write returned n > 0: the writer has taken the first n bytes, which
\* drain_to(n) removes from the buffer (lines 158-167).
WriteOk(s, n) ==
    [s EXCEPT !.written = RCat(@, RTake(s.buffer, n)),
              !.buffer = RDrop(@, n),
              !.shorts = IF n < RLen(s.buffer) THEN @ + 1 ELSE @]

\* A write of 0 bytes taken for WouldBlock (mutant of WriteZero).
WriteZeroAsNotReady(s) == Returned([s EXCEPT !.lastIo = "write_zero"], "NotReady", 0)

\* write returned 0: the WriteZero error (lines 160-163).
WriteZero(s) == Returned([s EXCEPT !.lastIo = "write_zero"], "ErrWriteZero", 0)

\* FramedWrite2::poll_complete from the head of its loop: the set of states
\* at return.
RECURSIVE PollCompleteLoop(_)

\* A loop that a WouldBlock of write breaks out of, to the flush, instead of
\* returning (mutant of PollCompleteLoop).
PollCompleteLoopBreaking(s) ==
    UNION {
        IF s.buffer # <<>> /\ a.t = "Err"
            THEN {Returned([s EXCEPT !.lastIo = "write_err"], "ErrIo", 0)}
        ELSE IF s.buffer # <<>> /\ a.t = "Ok" /\ a.n = 0
            THEN {WriteZero(s)}
        ELSE IF s.buffer # <<>> /\ a.t = "Ok"
            THEN PollCompleteLoop(WriteOk([s EXCEPT !.lastIo = "write_ok"], a.n))
        ELSE {CASE f = "WouldBlock" -> Returned([s EXCEPT !.lastIo = "flush_wb"], "NotReady", 0)
                [] f = "Err" -> Returned([s EXCEPT !.lastIo = "flush_err"], "ErrIo", 0)
                [] OTHER -> Returned([s EXCEPT !.lastIo = "flush_ok"], "Ready", 0)
              : f \in FlushAnswers}
        : a \in WriteAnswers(s)}

PollCompleteLoop(s) ==
    IF s.buffer # <<>>
    THEN UNION {
        LET r == s IN
        CASE a.t = "WouldBlock" -> {Returned([r EXCEPT !.lastIo = "write_wb"], "NotReady", 0)}
          [] a.t = "Err" -> {Returned([r EXCEPT !.lastIo = "write_err"], "ErrIo", 0)}
          [] a.t = "Ok" /\ a.n = 0 -> {WriteZero(r)}
          [] OTHER -> PollCompleteLoop(WriteOk([r EXCEPT !.lastIo = "write_ok"], a.n))
        : a \in WriteAnswers(s)}
    ELSE {
        LET r == s IN
        CASE a = "WouldBlock" -> Returned([r EXCEPT !.lastIo = "flush_wb"], "NotReady", 0)
          [] a = "Err" -> Returned([r EXCEPT !.lastIo = "flush_err"], "ErrIo", 0)
          [] OTHER -> Returned([r EXCEPT !.lastIo = "flush_ok"], "Ready", 0)
        : a \in FlushAnswers}

IsErr(ret) == ret.t \in {"ErrIo", "ErrWriteZero", "ErrBytesRemaining", "Panic"}

\* encode and Ready (lines 147-149).
EncodeAndReady(s, item) ==
    Returned([s EXCEPT !.buffer = Encode(item, @),
                       !.encodes = @ + 1,
                       !.accepted = Append(@, item)], "Ready", 0)

\* FramedWrite2::start_send
StartSendFw(s, item) ==
    IF OverBoundary(RLen(s.buffer))
    THEN {IF IsErr(f.ret) THEN f
          ELSE LET g == [f EXCEPT !.lenAfterFlush = RLen(f.buffer)] IN
               IF OverBoundary(RLen(f.buffer))
               THEN Returned(g, "NotReady", item.id)
               ELSE EncodeAndReady(g, item)
          : f \in PollCompleteLoop(s)}
    ELSE {EncodeAndReady(s, item)}

FwFields == {"buffer"}

\* State at the entry of a call of the write side.
FwEntry(op) ==
    [Merge(framedWrite, writeIo) EXCEPT !.op = op, !.calls = @ + 1, !.shorts = 0,
                                        !.lenOnEntry = RLen(framedWrite.buffer),
                                        !.lenAfterFlush = -1, !.lastIo = "none"]

\* A return of the write side that empties the buffer of the read side, as
\* if the two shared one buffer (mutant of FwReturn).
FwReturnSharingBuffer(s) ==
    /\ framedWrite' = Restrict(s, FwFields)
    /\ writeIo' = Restrict(s, DOMAIN writeIo)
    /\ framedRead' = [framedRead EXCEPT !.buffer = <<>>]
    /\ UNCHANGED <<readIo, bwVars, brVars, bsVars, ebVars, efVars>>

FwReturn(s) ==
    /\ framedWrite' = Restrict(s, FwFields)
    /\ writeIo' = Restrict(s, DOMAIN writeIo)
    /\ UNCHANGED <<frVars, bwVars, brVars, bsVars, ebVars, efVars>>

InitFramedWrite ==
    /\ framedWrite = framed_write2
    /\ writeIo = WriteIoStart
    /\ FramedReadIdle
    /\ BufWriterIdle
    /\ BufReaderIdle
    /\ ByteSinkIdle
    /\ EasyBufIdle
    /\ EasyFramedIdle

\* Sink::start_send of FramedWrite2, with a fresh item.
StartSend ==
    /\ writeIo.calls < MaxWriteCalls
    /\ \E len \in ItemLens :
        LET item == [id |-> writeIo.offered + 1, len |-> len] IN
        \E s \in StartSendFw([FwEntry("start_send") EXCEPT !.offered = @ + 1,
                                                             !.item = item], item) :
            FwReturn(s)

\* Sink::poll_complete of FramedWrite2.
PollComplete ==
    /\ writeIo.calls < MaxWriteCalls
    /\ \E s \in PollCompleteLoop(FwEntry("poll_complete")) : FwReturn(s)

\* Sink::close of Framed and FramedWrite (framed.rs lines 92-94).  Neither
\* impl Sink for FramedWrite nor impl Sink for FramedWrite2 defines close,
\* so the call runs the Sink trait's provided method, which is
\* poll_complete; AsyncWrite::shutdown (Fuse::shutdown, framed.rs lines
\* 133-137) is called from nowhere.
Close ==
    /\ writeIo.calls < MaxWriteCalls
    /\ \E s \in PollCompleteLoop(FwEntry("close")) : FwReturn(s)

NextFramedWrite == StartSend \/ PollComplete \/ Close

SpecFramedWrite == InitFramedWrite /\ [][NextFramedWrite]_vars

\* ------------------------------------------------------------------------
\* Framed (framed.rs): FramedRead2 over FramedWrite2 over the I/O object
\* and the codec.  poll is FramedRead2::poll, whose reads and decodes
\* FramedWrite2 passes on to the I/O object and the codec; start_send,
\* poll_complete and close are those of FramedWrite2.
\* ------------------------------------------------------------------------

\* Bound of the Framed model: the calls made on the two sides together.
MaxDuplexCalls == 2

\* The byte counts of the source of a Framed: none, a frame, and a frame
\* and a byte.
DuplexInputs == {0, FrameLen, FrameLen + 1}

\* framed(inner, codec)
InitFramed ==
    /\ framedRead = framed_read2
    /\ \E n \in DuplexInputs, m \in EofModes : readIo = ReadIoStart(n, m)
    /\ framedWrite = framed_write2
    /\ writeIo = WriteIoStart
    /\ BufWriterIdle
    /\ BufReaderIdle
    /\ ByteSinkIdle
    /\ EasyBufIdle
    /\ EasyFramedIdle

NextFramed ==
    /\ Len(readIo.out) + writeIo.calls < MaxDuplexCalls
    /\ (Poll \/ StartSend \/ PollComplete \/ Close)

SpecFramed == InitFramed /\ [][NextFramed]_vars

\* ------------------------------------------------------------------------
\* Framed (frame.rs): the stream over an EasyBuf
\* ------------------------------------------------------------------------

\* Bounds of the model: the bytes of the upstream and the polls made.
MaxEasyInput == 9

MaxEasyPolls == 4

WRITE_WINDOW_SIZE == 8192

\* codec.decode(&mut self.rd) of a codec of 4-byte frames: None on fewer
\* than 4 bytes, else the window drain_to(4) returns.
EasyDecode(rd) ==
    IF RLen(rd) < FrameLen
    THEN [t |-> "None", v |-> <<>>, rd |-> rd]
    ELSE [t |-> "Some", v |-> RTake(rd, FrameLen), rd |-> RDrop(rd, FrameLen)]

\* codec.eof(&mut self.rd): what a codec may answer at the end of the
\* stream, the end without a frame, a last frame, or an error.
EasyEof(rd) ==
    {[t |-> "None", v |-> <<>>, rd |-> rd], [t |-> "ErrBytesRemaining", v |-> <<>>, rd |-> rd]}
    \cup (IF RLen(rd) >= FrameLen THEN {EasyDecode(rd)} ELSE {})

\* self.upstream.read(&mut buffer[old..]) on a slice of WRITE_WINDOW_SIZE
\* bytes.
UpstreamAnswers(s) ==
    {[t |-> "WouldBlock", n |-> 0] : x \in {1} \cap (IF s.wouldBlocks < MaxWouldBlock THEN {1} ELSE {})}
    \cup {[t |-> "Err", n |-> 0] : x \in {1} \cap (IF s.readErrs < MaxReadErr THEN {1} ELSE {})}
    \cup {[t |-> "Ok", n |-> n] : n \in 1..Min(s.input - s.delivered, WRITE_WINDOW_SIZE)}
    \cup {[t |-> "Ok", n |-> 0] : x \in {1} \cap (IF s.delivered = s.input THEN {1} ELSE {})}

\* The zeros buffer.resize(old + WRITE_WINDOW_SIZE, 0) appends (source 0).
Window == <<Run(0, 1, WRITE_WINDOW_SIZE)>>

\* The loop of Framed::poll: get_mut, resize by the window, read, resize to
\* what was read, then eof on 0 and decode otherwise.  try_nb! returns
\* from inside the block, after the first resize and before the second,
\* and the drop of the EasyBufMut makes the window's end the vector's.
RECURSIVE EasyPollLoop(_)
EasyPollLoop(s) ==
    UNION {
      LET r == [s EXCEPT !.reads = @ + 1] IN
      CASE a.t = "WouldBlock" ->
             {Returned([r EXCEPT !.wouldBlocks = @ + 1, !.rd = RCat(@, Window)],
                       "NotReady", <<>>)}
        [] a.t = "Err" ->
             {Returned([r EXCEPT !.readErrs = @ + 1, !.rd = RCat(@, Window)],
                       "ErrIo", <<>>)}
        [] a.t = "Ok" /\ a.n = 0 ->
             {Returned([r EXCEPT !.eof = TRUE, !.rd = e.rd], e.t, e.v) : e \in EasyEof(r.rd)}
        [] OTHER ->
             LET t == [r EXCEPT !.rd = RCat(@, <<Run(1, r.delivered + 1, r.delivered + a.n)>>),
                                !.delivered = @ + a.n]
                 d == EasyDecode(t.rd)
             IN  IF d.t = "Some"
                 THEN {Returned([t EXCEPT !.rd = d.rd], "Some", d.v)}
                 ELSE EasyPollLoop(t)
      : a \in UpstreamAnswers(s)}

EfFields == {"eof", "rd"}

InitEasyFramed ==
    /\ easyFramed = framed
    /\ \E n \in 0..MaxEasyInput : easyFramedIo = EasyFramedIoStart(n)
    /\ FramedReadIdle
    /\ FramedWriteIdle
    /\ BufWriterIdle
    /\ BufReaderIdle
    /\ ByteSinkIdle
    /\ EasyBufIdle

\* Framed::poll
EasyFramedPoll ==
    /\ easyFramedIo.polls < MaxEasyPolls
    /\ LET s0 == [Merge(easyFramed, easyFramedIo) EXCEPT !.reads = 0, !.polls = @ + 1] IN
       \E s \in (IF s0.eof THEN {Returned(s0, "None", <<>>)} ELSE EasyPollLoop(s0)) :
          /\ easyFramed' = Restrict(s, EfFields)
          /\ easyFramedIo' = Restrict(s, DOMAIN easyFramedIo)
    /\ UNCHANGED <<frVars, fwVars, bwVars, brVars, bsVars, ebVars>>

NextEasyFramed == EasyFramedPoll

SpecEasyFramed == InitEasyFramed /\ [][NextEasyFramed]_vars

\* ------------------------------------------------------------------------
\* BufWriter (buf_writer.rs)
\* ------------------------------------------------------------------------

\* Bounds of the BufWriter model: the capacity, the bytes the caller
\* submits, the longest piece given to one write, and the inner calls that
\* fail (WouldBlock, another error, or 0 bytes accepted).
MaxCapacity == 3

MaxData == 4

MaxPiece == 4

MaxWriteFailures == 2

\* self.buf.has_remaining(): the cursor is before the end of the bytes.
HasRemaining(s) == s.position < Len(s.buf)

\* self.buf.get_ref().remaining_mut(): capacity - len.
RemainingMut(s) == s.capacity - Len(s.buf)

\* self.buf.bytes(): the bytes from the cursor on.
Pending(s) == Drop(s.buf, s.position)

\* The answers of the inner writer to write(src) for a non-empty src.
InnerWriteAnswers(s, len) ==
    {[t |-> "Ok", n |-> n] : n \in 1..len}
    \cup (IF s.failures < MaxWriteFailures
          THEN {[t |-> "Ok", n |-> 0], [t |-> "WouldBlock", n |-> 0], [t |-> "Err", n |-> 0]}
          ELSE {})

\* The answers of the inner writer to flush().
InnerFlushAnswers(s) ==
    {"Ok"} \cup (IF s.failures < MaxWriteFailures THEN {"WouldBlock", "Err"} ELSE {})

\* The error an io::Result carries for an answer of the inner writer.
ErrOf(t) == IF t = "WouldBlock" THEN "ErrWouldBlock" ELSE "ErrIo"

Failed(s) == [s EXCEPT !.failures = @ + 1]

\* A compact_buf that resets the buffer whatever the cursor (mutant of
\* CompactBuf).
CompactBufAlways(s) == [s EXCEPT !.position = 0, !.buf = <<>>]

\* compact_buf: when the cursor has reached the length, position 0 and clear.
CompactBuf(s) ==
    IF s.position = Len(s.buf)
    THEN [s EXCEPT !.position = 0, !.buf = <<>>]
    ELSE s

\* The inner write of do_flush returned 0: the WriteZero error (lines
\* 49-52).
FlushedZero(s) == Returned(Failed([s EXCEPT !.lastIo = "write_zero"]), "ErrWriteZero", 0)

\* do_flush: one write of the pending bytes; 0 is the WriteZero error, n
\* advances the cursor; then compact_buf.
DoFlush(s) ==
    {LET r == [s EXCEPT !.innerWrites = @ + 1] IN
     CASE a.t # "Ok" -> Returned(Failed(r), ErrOf(a.t), 0)
       [] a.t = "Ok" /\ a.n = 0 -> FlushedZero(r)
       [] OTHER ->
            Returned(CompactBuf([r EXCEPT !.received = @ \o Take(Pending(s), a.n),
                                          !.position = @ + a.n]), "Ok", 0)
     : a \in InnerWriteAnswers(s, Len(Pending(s)))}

\* flush_once
FlushOnce(s) == IF ~HasRemaining(s) THEN {Returned(s, "Ok", 0)} ELSE DoFlush(s)

\* flush_all
RECURSIVE FlushAll(_)
FlushAll(s) ==
    IF HasRemaining(s)
    THEN UNION {IF r.ret.t = "Ok" THEN FlushAll(r) ELSE {r} : r \in DoFlush(s)}
    ELSE {Returned(s, "Ok", 0)}

\* An end of write that puts the whole source whatever space is left
\* (mutant of WriteTail).
WriteTailUnbounded(s, src) ==
    IF ~HasRemaining(s) /\ Len(src) >= RemainingMut(s)
    THEN {LET r == [s EXCEPT !.innerWrites = @ + 1] IN
          IF a.t # "Ok" THEN Returned(Failed(r), ErrOf(a.t), 0)
          ELSE Returned([(IF a.n = 0 THEN Failed(r) ELSE r)
                            EXCEPT !.received = @ \o Take(src, a.n)], "Ok", a.n)
          : a \in InnerWriteAnswers(s, Len(src))}
    ELSE {Returned([s EXCEPT !.buf = @ \o src], "Ok", Len(src))}

\* The end of write (lines 108-117) once the flushes are done: the bypass
\* or the copy into the buffer.
WriteTail(s, src) ==
    LET rem == RemainingMut(s) IN
    IF ~HasRemaining(s) /\ Len(src) >= rem
    THEN {LET r == [s EXCEPT !.innerWrites = @ + 1] IN
          IF a.t # "Ok" THEN Returned(Failed(r), ErrOf(a.t), 0)
          ELSE Returned([(IF a.n = 0 THEN Failed(r) ELSE r)
                            EXCEPT !.received = @ \o Take(src, a.n)], "Ok", a.n)
          : a \in InnerWriteAnswers(s, Len(src))}
    ELSE LET n == Min(rem, Len(src)) IN
         {Returned([s EXCEPT !.buf = @ \o Take(src, n)], "Ok", n)}

\* A write that has put the source into the buffer before its flush failed
\* (mutant of WriteFailed).
WriteFailedBuffering(s, src) ==
    [s EXCEPT !.buf = @ \o Take(src, Min(RemainingMut(s), Len(src)))]

\* try! on the error of flush_once or flush_all (lines 97 and 104): write
\* returns it and has not looked at the source yet.
WriteFailed(s, src) == s

\* A test that also sends a source that just fills the buffer to the flush
\* (mutant of NoRoom).
NoRoomOrFull(s, src) == Len(src) >= RemainingMut(s)

\* len > self.buf.get_ref().remaining_mut() (line 95)
NoRoom(s, src) == Len(src) > RemainingMut(s)

\* BufWriter::write
WriteBw(s, src) ==
    UNION {
        IF s1.ret.t # "Ok" THEN {WriteFailed(s1, src)}
        ELSE UNION {IF s2.ret.t # "Ok" THEN {WriteFailed(s2, src)} ELSE WriteTail(s2, src)
                    : s2 \in (IF RemainingMut(s1) = 0 THEN FlushAll(s1) ELSE {s1})}
        : s1 \in (IF NoRoom(s, src) THEN FlushOnce(s) ELSE {Returned(s, "Ok", 0)})}

\* BufWriter::flush: flush_all and then the inner writer's flush.
FlushBw(s) ==
    UNION {
        IF s1.ret.t # "Ok" THEN {s1}
        ELSE {IF a = "Ok" THEN Returned(s1, "Ok", 0) ELSE Returned(Failed(s1), ErrOf(a), 0)
              : a \in InnerFlushAnswers(s1)}
        : s1 \in FlushAll(s)}

\* The answers of the inner writer to AsyncWrite::shutdown(): a Poll.
InnerShutdownAnswers(s) ==
    {"Ready"} \cup (IF s.failures < MaxWriteFailures THEN {"NotReady", "Err"} ELSE {})

\* A shutdown that goes to the inner writer without a flush (mutant of
\* ShutdownBw).
ShutdownBwUnflushed(s) == {Returned([s EXCEPT !.lastIo = "shutdown_ready"], "Ready", 0)}

\* BufWriter::shutdown: flush_all().and_then(|()| self.get_mut().shutdown());
\* an io::Error of flush_all is the result as it is.
ShutdownBw(s) ==
    UNION {
        IF s1.ret.t # "Ok" THEN {s1}
        ELSE {CASE a = "Ready" ->
                     Returned([s1 EXCEPT !.lastIo = "shutdown_ready"], "Ready", 0)
                [] a = "NotReady" ->
                     Returned(Failed([s1 EXCEPT !.lastIo = "shutdown_not_ready"]), "NotReady", 0)
                [] OTHER ->
                     Returned(Failed([s1 EXCEPT !.lastIo = "shutdown_err"]), "ErrIo", 0)
              : a \in InnerShutdownAnswers(s1)}
        : s1 \in FlushAll(s)}

\* The bytes of the source of write_buf not consumed yet.
Rest(s, src) == Drop(src, s.taken)

\* The answers of the inner writer to write_buf(buf) for a buf of len
\* bytes: a Poll, Ready with the count of bytes it advanced buf by.
InnerWriteBufAnswers(s, len) ==
    {[t |-> "Ready", n |-> n] : n \in 1..len}
    \cup (IF s.failures < MaxWriteFailures
          THEN {[t |-> "Ready", n |-> 0], [t |-> "NotReady", n |-> 0], [t |-> "Err", n |-> 0]}
          ELSE {})

\* try_ready!(self.inner.write_buf(&mut (&mut self.buf).chain(&mut *buf)));
\* self.compact_buf() (lines 138-139 and 145-146): the inner writer
\* advances the chain by n, first the cursor of the buffer and then the
\* source.  ret "Ok" stands for the call going on.
ChainWrite(s, src) ==
    {LET r == [s EXCEPT !.innerWrites = @ + 1] IN
     CASE a.t = "NotReady" -> Returned(Failed([r EXCEPT !.lastIo = "write_buf_not_ready"]), "NotReady", 0)
       [] a.t = "Err" -> Returned(Failed([r EXCEPT !.lastIo = "write_buf_err"]), "ErrIo", 0)
       [] OTHER ->
            LET k == Min(a.n, Len(Pending(s))) IN
            Returned(CompactBuf([(IF a.n = 0 THEN Failed(r) ELSE r) EXCEPT
                        !.received = @ \o Take(Pending(s), k) \o Take(Rest(s, src), a.n - k),
                        !.position = @ + k,
                        !.taken = @ + (a.n - k)]), "Ok", 0)
     : a \in InnerWriteBufAnswers(s, Len(Pending(s)) + Len(Rest(s, src)))}

\* The end of write_buf (lines 151-158): the direct write of the source, or
\* put, which panics when the source is longer than the space left.
WriteBufTail(s, src) ==
    IF ~HasRemaining(s) /\ Len(Rest(s, src)) > RemainingMut(s)
    THEN {LET r == [s EXCEPT !.innerWrites = @ + 1] IN
          CASE a.t = "NotReady" -> Returned(Failed([r EXCEPT !.lastIo = "write_buf_not_ready"]), "NotReady", 0)
            [] a.t = "Err" -> Returned(Failed([r EXCEPT !.lastIo = "write_buf_err"]), "ErrIo", 0)
            [] OTHER ->
                 Returned([(IF a.n = 0 THEN Failed(r) ELSE r) EXCEPT
                             !.received = @ \o Take(Rest(s, src), a.n),
                             !.taken = @ + a.n], "Ready", a.n)
          : a \in InnerWriteBufAnswers(s, Len(Rest(s, src)))}
    ELSE IF Len(Rest(s, src)) > RemainingMut(s)
         THEN {Returned(s, "Panic", 0)}
         ELSE {Returned([s EXCEPT !.buf = @ \o Rest(s, src), !.taken = Len(src)],
                        "Ready", Len(src))}

\* while !self.buf.get_ref().has_remaining_mut() (lines 144-147)
RECURSIVE WriteBufLoop(_, _)
WriteBufLoop(s, src) ==
    IF RemainingMut(s) = 0
    THEN UNION {IF r.ret.t = "Ok" THEN WriteBufLoop(r, src) ELSE {r} : r \in ChainWrite(s, src)}
    ELSE WriteBufTail(s, src)

\* BufWriter::write_buf with a source of one chunk.
WriteBufBw(s, src) ==
    IF Len(src) > RemainingMut(s)
    THEN UNION {IF r.ret.t = "Ok" THEN WriteBufLoop(r, src) ELSE {r} : r \in ChainWrite(s, src)}
    ELSE WriteBufLoop(s, src)

BwFields == {"buf", "position", "capacity"}

BwEntry(op) ==
    [Merge(bufWriter, bufWriterIo) EXCEPT !.op = op, !.lastIo = "none", !.taken = 0, !.len = 0]

\* The BufWriter is there: into_inner has not consumed it and no call has
\* panicked.
Alive == bufWriterIo.op # "into_inner" /\ bufWriterIo.ret.t # "Panic"

BwReturn(s) ==
    /\ bufWriter' = Restrict(s, BwFields)
    /\ bufWriterIo' = Restrict(s, DOMAIN bufWriterIo)
    /\ UNCHANGED <<frVars, fwVars, brVars, bsVars, ebVars, efVars>>

InitBufWriter ==
    /\ \E cap \in 1..MaxCapacity : bufWriter = BufWriterWithCapacity(cap)
    /\ \E n \in 0..MaxData : bufWriterIo = BufWriterIoStart(n)
    /\ FramedReadIdle
    /\ FramedWriteIdle
    /\ BufReaderIdle
    /\ ByteSinkIdle
    /\ EasyBufIdle
    /\ EasyFramedIdle

\* io::Write::write with the next piece of the caller's data; the caller
\* goes on after the count returned.
Write ==
    /\ Alive
    /\ \E k \in 1..Min(MaxPiece, Len(bufWriterIo.data) - bufWriterIo.sent) :
        LET src == SubSeq(bufWriterIo.data, bufWriterIo.sent + 1, bufWriterIo.sent + k) IN
        \E s \in WriteBw([BwEntry("write") EXCEPT !.len = k], src) :
            BwReturn(IF s.ret.t = "Ok" THEN [s EXCEPT !.sent = @ + s.ret.v] ELSE s)

\* io::Write::flush
Flush == Alive /\ \E s \in FlushBw(BwEntry("flush")) : BwReturn(s)

\* AsyncWrite::shutdown
Shutdown == Alive /\ \E s \in ShutdownBw(BwEntry("shutdown")) : BwReturn(s)

\* AsyncWrite::write_buf with the next piece of the caller's data as the
\* source; the source stays advanced by what the call consumed.
WriteBuf ==
    /\ Alive
    /\ \E k \in 1..Min(MaxPiece, Len(bufWriterIo.data) - bufWriterIo.sent) :
        LET src == SubSeq(bufWriterIo.data, bufWriterIo.sent + 1, bufWriterIo.sent + k) IN
        \E s \in WriteBufBw([BwEntry("write_buf") EXCEPT !.len = k], src) :
            BwReturn([s EXCEPT !.sent = @ + s.taken])

\* BufWriter::into_inner: self.inner is returned and the buffer dropped.
IntoInner == Alive /\ BwReturn(Returned(BwEntry("into_inner"), "Ok", 0))

NextBufWriter == Write \/ Flush \/ Shutdown \/ WriteBuf \/ IntoInner

SpecBufWriter == InitBufWriter /\ [][NextBufWriter]_vars

\* The source of len bytes a write or write_buf is given: the next bytes of
\* the caller's data.
Source(io, len) == SubSeq(io.data, io.sent + 1, io.sent + len)

\* ------------------------------------------------------------------------
\* The two buffering writers, FramedWrite2 and BufWriter, one of them in
\* use while the other stays as constructed.
\* ------------------------------------------------------------------------

InitWriters == InitFramedWrite \/ InitBufWriter

NextWriters ==
    \/ BufWriterIdle /\ NextFramedWrite
    \/ FramedWriteIdle /\ NextBufWriter

SpecWriters == InitWriters /\ [][NextWriters]_vars

\* ------------------------------------------------------------------------
\* BufReader (buf_reader.rs)
\* ------------------------------------------------------------------------

\* Bounds of the BufReader model: the buffer length, the bytes of the inner
\* reader, the longest destination of a read, the inner reads that fail
\* (WouldBlock or another error), and the calls made.
MaxBufLen == 3

MaxBytes == 4

MaxDst == 3

MaxReadFailures == 1

MaxReadCalls == 6

\* The count of bytes of the data from the inner reader's position on; none
\* when the position is past the end.
Available(s) ==
    IF Less64(s.offset, U64(Len(s.data))) THEN Len(s.data) - s.offset[4] ELSE 0

\* The answers of the inner reader to read(dst) for a destination of len
\* bytes: a non-empty short read, 0 at the end of the data, or an error;
\* the PositionReader fills the destination.
InnerReadAnswers(s, len) ==
    IF s.kind = "position"
    THEN {[t |-> "Ok", n |-> len]}
    ELSE IF s.kind = "short"
    THEN {[t |-> "Ok", n |-> IF s.innerReads < Len(s.lengths)
                             THEN s.lengths[s.innerReads + 1] ELSE 0]}
    ELSE LET left == Available(s) IN
         {[t |-> "Ok", n |-> n] : n \in 1..Min(len, left)}
         \cup (IF left = 0 THEN {[t |-> "Ok", n |-> 0]} ELSE {})
         \cup (IF s.failures < MaxReadFailures
               THEN {[t |-> "WouldBlock", n |-> 0], [t |-> "Err", n |-> 0]}
               ELSE {})

\* The n bytes the inner reader delivers next.
NextBytes(s, n) ==
    IF s.kind = "position"
    THEN [i \in 1..n |-> Add64(s.offset, U64(i - 1))[4] % 256]
    ELSE IF s.kind = "short"
    THEN [i \in 1..n |-> 0]
    ELSE SubSeq(s.data, s.offset[4] + 1, s.offset[4] + n)

\* A reader that always goes through its buffer (mutant of Bypass).
BypassNever(s, len) == FALSE

\* A bypass test that forgets the buffered bytes (mutant of Bypass).
BypassIgnoringBuffer(s, len) == len >= Len(s.buf)

\* self.pos == self.cap && buf.len() >= self.buf.len() (line 63)
Bypass(s, len) == s.pos = s.cap /\ len >= Len(s.buf)

\* fill_buf: when the buffer is used up, one inner read into the whole
\* buffer sets cap and resets pos; the result is buf[pos..cap].
FillBuf(s) ==
    IF s.pos >= s.cap
    THEN {LET r == [s EXCEPT !.innerReads = @ + 1] IN
          IF a.t # "Ok" THEN Returned(Failed(r), ErrOf(a.t), 0)
          ELSE Returned([r EXCEPT
                   !.buf = [i \in 1..Len(s.buf) |->
                               IF i <= a.n THEN NextBytes(s, a.n)[i] ELSE s.buf[i]],
                   !.offset = Add64(@, U64(a.n)),
                   !.cap = a.n,
                   !.pos = 0], "Ok", 0)
          : a \in InnerReadAnswers(s, Len(s.buf))}
    ELSE {Returned(s, "Ok", 0)}

\* A consume that trusts the amount (mutant of Consume).
ConsumeUnclamped(s, amt) == [s EXCEPT !.pos = s.pos + amt]

\* consume
Consume(s, amt) == [s EXCEPT !.pos = Min(s.pos + amt, s.cap)]

\* A copy out of the buffer that takes no account of the length of the
\* destination (mutant of Nread).
NreadUncapped(f, len) == f.cap - f.pos

\* rem.read(buf) (line 68): the count copied out of buf[pos..cap]
Nread(f, len) == Min(f.cap - f.pos, len)

\* BufReader::read into a destination of len bytes; the bytes handed to the
\* caller are appended to out.
ReadBr(s, len) ==
    IF Bypass(s, len)
    THEN {LET r == [s EXCEPT !.innerReads = @ + 1, !.bypasses = @ + 1] IN
          IF a.t # "Ok" THEN Returned(Failed(r), ErrOf(a.t), 0)
          ELSE Returned([r EXCEPT !.out = @ \o NextBytes(s, a.n),
                                  !.offset = Add64(@, U64(a.n))], "Ok", a.n)
          : a \in InnerReadAnswers(s, len)}
    ELSE {IF f.ret.t # "Ok" THEN f
          ELSE LET nread == Nread(f, len) IN
               Returned(Consume([f EXCEPT !.out = @ \o SubSeq(f.buf, f.pos + 1, f.pos + nread)],
                                nread), "Ok", nread)
          : f \in FillBuf(s)}

\* try_nb! and Ok(Async::Ready(n)): WouldBlock becomes NotReady.
PollOf(t) == CASE t = "Ok" -> "Ready" [] t = "ErrWouldBlock" -> "NotReady" [] OTHER -> t

\* AsyncRead::read_buf of BufReader into a BufMut whose bytes_mut() has chunk
\* bytes and whose remaining_mut() is rem: the bypass hands the BufMut to
\* the inner reader's read_buf, which may fill what remains of it; else
\* fill_buf, and min(rem.len(), buf.remaining_mut()) bytes are put.
ReadBufBr(s, chunk, rem) ==
    IF Bypass(s, chunk)
    THEN {LET r == [s EXCEPT !.innerReads = @ + 1, !.bypasses = @ + 1] IN
          IF a.t # "Ok" THEN Returned(Failed(r), PollOf(ErrOf(a.t)), 0)
          ELSE Returned([r EXCEPT !.out = @ \o NextBytes(s, a.n),
                                  !.offset = Add64(@, U64(a.n))], "Ready", a.n)
          : a \in InnerReadAnswers(s, rem)}
    ELSE {IF f.ret.t # "Ok" THEN Returned(f, PollOf(f.ret.t), 0)
          ELSE LET nread == Min(f.cap - f.pos, rem) IN
               Returned(Consume([f EXCEPT !.out = @ \o SubSeq(f.buf, f.pos + 1, f.pos + nread)],
                                nread), "Ready", nread)
          : f \in FillBuf(s)}

\* Seek::seek of the inner reader: whether it succeeds and the position it
\* then has.  The PositionReader wraps and never fails; the reader over
\* data takes any Start and refuses a negative or overflowing position.
InnerSeek(s, from) ==
    IF s.kind = "position"
    THEN [ok |-> TRUE,
          pos |-> CASE from.whence = "Start" -> from.n
                    [] from.whence = "Current" -> Add64(s.offset, from.n)
                    [] from.whence = "End" -> Add64(U64_MAX, from.n)]
    ELSE IF from.whence = "Start"
         THEN [ok |-> TRUE, pos |-> from.n]
         ELSE LET base == IF from.whence = "End" THEN U64(Len(s.data)) ELSE s.offset
                  pos == Add64(base, from.n)
              IN  [ok |-> IF IsNegative(from.n) THEN ~Less64(base, Neg64(from.n))
                                                ELSE ~Less64(pos, base),
                   pos |-> pos]

\* try!(self.inner.seek(from)): Ok moves the inner reader and is the
\* result so far, an error ends the call.
SeekInner(s, from) ==
    LET a == InnerSeek(s, from)
        r == [s EXCEPT !.seeks = Append(@, from)]
    IN  IF a.ok
        THEN Returned([r EXCEPT !.offset = a.pos, !.result = a.pos], "Ok", 0)
        ELSE Returned(r, "ErrIo", 0)

\* A seek that leaves the buffer as it is (mutant of EmptyBuffer).
KeepBuffer(s) == s

\* self.pos = self.cap; // empty the buffer (lines 109 and 116)
EmptyBuffer(s) == [s EXCEPT !.pos = s.cap]

\* The whole of the filled buffer, read or not (mutant of Remainder).
RemainderOfFilled(s) == U64(s.cap)

\* let remainder = (self.cap - self.pos) as i64; (line 97)
Remainder(s) == U64(s.cap - s.pos)

\* An offset computed with a wrapping subtraction (mutant of SeekOffset).
SeekOffsetWrapping(n, remainder) == [some |-> TRUE, v |-> Sub64(n, remainder)]

\* n.checked_sub(remainder) (line 104)
SeekOffset(n, remainder) == CheckedSub(n, remainder)

\* BufReader::seek
SeekBr(s, from) ==
    IF from.whence = "Current"
    THEN LET remainder == Remainder(s)
             offset == SeekOffset(from.n, remainder)
         IN  IF offset.some
             THEN LET r == SeekInner(s, SeekFrom("Current", offset.v)) IN
                  IF r.ret.t = "Ok" THEN EmptyBuffer(r) ELSE r
             ELSE LET r1 == SeekInner(s, SeekFrom("Current", Neg64(remainder))) IN
                  IF r1.ret.t # "Ok" THEN r1
                  ELSE LET r2 == SeekInner(EmptyBuffer(r1), SeekFrom("Current", from.n)) IN
                       IF r2.ret.t = "Ok" THEN EmptyBuffer(r2) ELSE r2
    ELSE LET r == SeekInner(s, from) IN
         IF r.ret.t = "Ok" THEN EmptyBuffer(r) ELSE r

BrFields == {"buf", "pos", "cap"}

BrEntry(op) ==
    [Merge(bufReader, bufReaderIo) EXCEPT !.op = op, !.calls = @ + 1, !.got = <<>>,
                                          !.arg = NoSeek, !.seeks = <<>>, !.len = 0,
                                          !.rem = 0]

BrReturn(s) ==
    /\ bufReader' = Restrict(s, BrFields)
    /\ bufReaderIo' = Restrict(s, DOMAIN bufReaderIo)
    /\ UNCHANGED <<frVars, fwVars, bwVars, bsVars, ebVars, efVars>>

InitBufReader ==
    /\ \E cap \in 1..MaxBufLen : bufReader = BufReaderWithCapacity(cap)
    /\ \E n \in 0..MaxBytes : bufReaderIo = BufReaderIoStart(n)
    /\ FramedReadIdle
    /\ FramedWriteIdle
    /\ BufWriterIdle
    /\ ByteSinkIdle
    /\ EasyBufIdle
    /\ EasyFramedIdle

\* io::Read::read with a destination of 1..MaxDst bytes.
Read ==
    /\ bufReaderIo.calls < MaxReadCalls
    /\ \E len \in 1..MaxDst :
          \E s \in ReadBr([BrEntry("read") EXCEPT !.len = len, !.rem = len], len) :
              BrReturn(s)

\* AsyncRead::read_buf with a BufMut of 1..MaxDst bytes remaining, of which
\* its first chunk holds some or all.
ReadBuf ==
    \E rem \in 1..MaxDst : \E chunk \in 1..rem :
          \E s \in ReadBufBr([BrEntry("read_buf") EXCEPT !.len = chunk, !.rem = rem], chunk, rem) :
              BrReturn(s)

NextBufReader == Read

SpecBufReader == InitBufReader /\ [][NextBufReader]_vars

\* Bound of the model of the seekable BufReader: the calls made.
MaxSeekCalls == 3

\* The capacities the tests give a seekable BufReader.
SeekCapacities == {2, 5}

\* The arguments of the seeks made.
SeekArgs ==
    {SeekFrom("Start", n) : n \in {U64(0), U64(1), U64(3), Sub64(U64_MAX, U64(5))}}
    \cup {SeekFrom("End", I64(n)) : n \in {-5, -1, 0}}
    \cup {SeekFrom("Current", n) : n \in {I64(-2), I64(-1), I64(0), I64(1),
                                          I64_MIN, Add64(I64_MIN, U64(1)), I64_MAX}}

InitBufReaderSeek ==
    /\ \E cap \in SeekCapacities : bufReader = BufReaderWithCapacity(cap)
    /\ \/ \E n \in 0..MaxBytes : bufReaderIo = BufReaderIoOf("data", n)
       \/ bufReaderIo = BufReaderIoOf("position", 0)
    /\ FramedReadIdle
    /\ FramedWriteIdle
    /\ BufWriterIdle
    /\ ByteSinkIdle
    /\ EasyBufIdle
    /\ EasyFramedIdle

\* io::Seek::seek
Seek ==
    \E from \in SeekArgs :
        BrReturn(SeekBr([BrEntry("seek") EXCEPT !.arg = from], from))

\* io::BufRead::fill_buf; got is the slice returned.
FillBufCall ==
    \E s \in FillBuf(BrEntry("fill_buf")) :
        BrReturn(IF s.ret.t = "Ok"
                 THEN [s EXCEPT !.got = SubSeq(s.buf, s.pos + 1, s.cap)]
                 ELSE s)

\* io::BufRead::consume
ConsumeCall ==
    \E amt \in 0..MaxDst :
        BrReturn(Returned(Consume([BrEntry("consume") EXCEPT !.len = amt], amt), "Ok", 0))

NextBufReaderSeek ==
    /\ bufReaderIo.calls < MaxSeekCalls
    /\ (Seek \/ FillBufCall \/ ConsumeCall \/ Read)

SpecBufReaderSeek == InitBufReaderSeek /\ [][NextBufReaderSeek]_vars

\* Bound of the model of all the calls of a BufReader: the calls made.
MaxStateCalls == 2

\* Any sequence of read, read_buf, fill_buf, consume and seek calls on a
\* BufReader over a finite byte string.
NextBufReaderState ==
    /\ bufReaderIo.calls < MaxStateCalls
    /\ (Read \/ ReadBuf \/ FillBufCall \/ ConsumeCall \/ Seek)

SpecBufReaderState == InitBufReader /\ [][NextBufReaderState]_vars

\* Bounds of the model of a BufReader over a ShortReader: the lengths the
\* ShortReader is made with, and the reads made.
MaxLengths == 3

MaxShortCalls == 7

\* The counts a ShortReader answers with.
ShortCounts == 0..2

\* lengths: vec![0, 1, 2, 0, 1, 0]
TestLengths == <<0, 1, 2, 0, 1, 0>>

\* BufReader::with_capacity(cap, ShortReader{lengths}), the buffer no
\* shorter than a count the ShortReader answers with.
InitShortReads ==
    /\ \E cap \in 2..MaxBufLen : bufReader = BufReaderWithCapacity(cap)
    /\ \E lengths \in {TestLengths} \cup UNION {[1..k -> ShortCounts] : k \in 0..MaxLengths} :
          bufReaderIo = [BufReaderIoOf("short", 0) EXCEPT !.lengths = lengths]
    /\ FramedReadIdle
    /\ FramedWriteIdle
    /\ BufWriterIdle
    /\ ByteSinkIdle
    /\ EasyBufIdle
    /\ EasyFramedIdle

\* io::Read::read over a ShortReader, with a destination of 1..MaxDst bytes.
ShortRead ==
    /\ bufReaderIo.calls < MaxShortCalls
    /\ \E len \in 1..MaxDst :
          \E s \in ReadBr([BrEntry("read") EXCEPT !.len = len], len) :
              BrReturn([s EXCEPT !.counts = Append(@, s.ret.v)])

SpecShortReads == InitShortReads /\ [][ShortRead]_vars

\* ------------------------------------------------------------------------
\* ByteSink (byte_sink.rs)
\* ------------------------------------------------------------------------

\* Bounds of the ByteSink model: the calls made, the failing answers
\* (WouldBlock, errors, writes of 0 bytes) and the short reads and writes
\* within one call.
MaxSinkCalls == 4

MaxSinkFailures == 1

MaxSinkShorts == 1

\* The byte counts of the readers offered.
ReaderLens == {0, 1, 8193}

\* buffer[from..to], 0-based and half-open as in the source.
Slice(buffer, from, to) == RTake(RDrop(buffer, from), to - from)

\* A reader that returns a count beyond the length of the slice it was
\* given (mutant of SinkReadAnswers).
SinkReadAnswersOverlong(s) == {[t |-> "Ok", n |-> s.read.len - s.read.pos]}

\* The answers of the active reader to read(&mut buffer): a non-empty read
\* of bytes it still has, at most BUFFER_SIZE, 0 when it has none, or a
\* failure.
SinkReadAnswers(s) ==
    LET left == s.read.len - s.read.pos
        most == Min(left, BUFFER_SIZE)
    IN  {[t |-> "Ok", n |-> most]}
        \cup (IF s.shorts < MaxSinkShorts /\ most > 1 THEN {[t |-> "Ok", n |-> 1]} ELSE {})
        \cup (IF s.failures < MaxSinkFailures
              THEN {[t |-> "WouldBlock", n |-> 0], [t |-> "Err", n |-> 0]}
              ELSE {})

\* The answers of the writer to write(&buffer[read_cursor..write_cursor]).
SinkWriteAnswers(s) ==
    LET len == s.write_cursor - s.read_cursor IN
    {[t |-> "Ok", n |-> len]}
    \cup (IF s.shorts < MaxSinkShorts /\ len > 1 THEN {[t |-> "Ok", n |-> 1]} ELSE {})
    \cup (IF s.failures < MaxSinkFailures
          THEN {[t |-> "WouldBlock", n |-> 0], [t |-> "Err", n |-> 0], [t |-> "Ok", n |-> 0]}
          ELSE {})

\* The answers of the writer to flush().
SinkFlushAnswers(s) ==
    {"Ok"} \cup (IF s.failures < MaxSinkFailures THEN {"WouldBlock", "Err"} ELSE {})

\* The answers of poll_read and of poll_write.
ReadyAnswers(s) == {"Ready"} \cup (IF s.failures < MaxSinkFailures THEN {"NotReady"} ELSE {})

Io(s, what) == [s EXCEPT !.lastIo = what]

\* read returned n (lines 54-57): the bytes are at the start of the buffer,
\* write_cursor is n, and 0 drops the reader.
SinkReadOk(s, n) ==
    [s EXCEPT !.buffer = IF n = 0 THEN @
                         ELSE RCat(<<Run(s.read.id, s.read.pos + 1, s.read.pos + n)>>,
                                   RDrop(@, n)),
              !.write_cursor = n,
              !.read = IF n = 0 THEN NoReader ELSE [@ EXCEPT !.pos = @ + n],
              !.shorts = IF n < Min(s.read.len - s.read.pos, BUFFER_SIZE) THEN @ + 1 ELSE @]

\* A write that offers the buffer from its start again (mutant of
\* SinkWriteOk).
SinkWriteOkFromStart(s, n) ==
    [s EXCEPT !.written = RCat(@, Slice(s.buffer, 0, n)),
              !.read_cursor = @ + n,
              !.failures = IF n = 0 THEN @ + 1 ELSE @,
              !.zeros = IF n = 0 THEN @ + 1 ELSE @,
              !.shorts = IF 0 < n /\ n < s.write_cursor - s.read_cursor THEN @ + 1 ELSE @]

\* write returned n (line 67): the writer has taken n bytes from
\* read_cursor on.
SinkWriteOk(s, n) ==
    [s EXCEPT !.written = RCat(@, Slice(s.buffer, s.read_cursor, s.read_cursor + n)),
              !.read_cursor = @ + n,
              !.failures = IF n = 0 THEN @ + 1 ELSE @,
              !.zeros = IF n = 0 THEN @ + 1 ELSE @,
              !.shorts = IF 0 < n /\ n < s.write_cursor - s.read_cursor THEN @ + 1 ELSE @]

\* ByteSink::poll_complete.  SinkLoop is the head of the loop (lines 49-58),
\* SinkPollWrite lines 60-64, SinkWriteLoop lines 66-68, SinkAfterWrite lines
\* 70-76.
RECURSIVE SinkLoop(_)
\* An end of a turn that answers Ready after the first flush, whether or
\* not a reader is left (mutant of SinkAfterWrite).
SinkAfterWriteEarly(s) ==
    LET r == [s EXCEPT !.read_cursor = 0, !.write_cursor = 0] IN
    {CASE a = "WouldBlock" -> Returned(Failed(Io(r, "flush_wb")), "NotReady", 0)
       [] a = "Err" -> Returned(Failed(Io(r, "flush_err")), "ErrIo", 0)
       [] OTHER -> Returned(Io(r, "flush_ok"), "Ready", 0)
     : a \in SinkFlushAnswers(r)}

SinkAfterWrite(s) ==
    UNION {
      IF r.read = NoReader
      THEN {CASE a = "WouldBlock" -> Returned(Failed(Io(r, "flush_wb")), "NotReady", 0)
              [] a = "Err" -> Returned(Failed(Io(r, "flush_err")), "ErrIo", 0)
              [] OTHER -> Returned(Io(r, "flush_ok"), "Ready", 0)
            : a \in SinkFlushAnswers(r)}
      ELSE SinkLoop(r)
      : r \in {[s EXCEPT !.read_cursor = 0, !.write_cursor = 0]}}

RECURSIVE SinkWriteLoop(_)
SinkWriteLoop(s) ==
    IF s.read_cursor # s.write_cursor
    THEN UNION {
        CASE a.t = "WouldBlock" -> {Returned(Failed(Io(s, "write_wb")), "NotReady", 0)}
          [] a.t = "Err" -> {Returned(Failed(Io(s, "write_err")), "ErrIo", 0)}
          [] OTHER -> UNION {SinkWriteLoop(t) : t \in {SinkWriteOk(Io(s, "write_ok"), a.n)}}
        : a \in SinkWriteAnswers(s)}
    ELSE SinkAfterWrite(s)

SinkPollWrite(s) ==
    IF s.write_cursor # 0
    THEN UNION {
        IF a = "NotReady" THEN {Returned(Failed(Io(s, "poll_write_not_ready")), "NotReady", 0)}
        ELSE SinkWriteLoop(s)
        : a \in ReadyAnswers(s)}
    ELSE SinkWriteLoop(s)

SinkLoop(s) ==
    IF s.read # NoReader /\ s.write_cursor = 0
    THEN UNION {
        IF p = "NotReady" THEN {Returned(Failed(Io(s, "poll_read_not_ready")), "NotReady", 0)}
        ELSE UNION {
            CASE a.t = "WouldBlock" -> {Returned(Failed(Io(s, "read_wb")), "NotReady", 0)}
              [] a.t = "Err" -> {Returned(Failed(Io(s, "read_err")), "ErrIo", 0)}
              [] OTHER -> UNION {SinkPollWrite(t) : t \in {SinkReadOk(Io(s, "read_ok"), a.n)}}
            : a \in SinkReadAnswers(s)}
        : p \in ReadyAnswers(s)}
    ELSE SinkPollWrite(s)

\* A test after which the offered reader always replaces the active one
\* (mutant of StillActive).
StillActiveNever(s) == FALSE

\* self.read.is_some() after the poll_complete (line 38)
StillActive(s) == s.read # NoReader

\* self.read = Some(item); Ready (lines 43-44)
StoreReader(s, item) ==
    Returned([s EXCEPT !.read = item, !.accepted = Append(@, item)], "Ready", 0)

\* ByteSink::start_send
StartSendBs(s, item) ==
    IF s.read # NoReader
    THEN {IF IsErr(f.ret) THEN f
          ELSE IF StillActive(f) THEN Returned(f, "NotReady", item.id)
          ELSE StoreReader(f, item)
          : f \in SinkLoop(s)}
    ELSE {StoreReader(s, item)}

BsFields == {"read", "write_cursor", "read_cursor", "buffer"}

BsEntry(op) ==
    [Merge(byteSink, byteSinkIo) EXCEPT !.op = op, !.calls = @ + 1, !.shorts = 0,
                                        !.zeros = 0, !.lastIo = "none",
                                        !.resumed = byteSink.write_cursor
                                                    - byteSink.read_cursor]

BsReturn(s) ==
    /\ byteSink' = Restrict(s, BsFields)
    /\ byteSinkIo' = Restrict(s, DOMAIN byteSinkIo)
    /\ UNCHANGED <<frVars, fwVars, bwVars, brVars, ebVars, efVars>>

InitByteSink ==
    /\ byteSink = byte_sink
    /\ byteSinkIo = ByteSinkIoStart
    /\ FramedReadIdle
    /\ FramedWriteIdle
    /\ BufWriterIdle
    /\ BufReaderIdle
    /\ EasyBufIdle
    /\ EasyFramedIdle

\* Sink::start_send of ByteSink, with a fresh reader.
SinkStartSend ==
    /\ byteSinkIo.calls < MaxSinkCalls
    /\ \E len \in ReaderLens :
        LET item == [id |-> byteSinkIo.offered + 1, len |-> len, pos |-> 0] IN
        \E s \in StartSendBs([BsEntry("start_send") EXCEPT !.offered = @ + 1], item) :
            BsReturn(s)

\* Sink::poll_complete of ByteSink.
SinkPollComplete ==
    /\ byteSinkIo.calls < MaxSinkCalls
    /\ \E s \in SinkLoop(BsEntry("poll_complete")) : BsReturn(s)

NextByteSink == SinkStartSend \/ SinkPollComplete

SpecByteSink == InitByteSink /\ [][NextByteSink]_vars

\* The owner of the sink: it calls poll_complete again after every
\* answer but Ready, once per wake-up.  The readers and the writer fail at
\* most MaxSinkFailures times, so every reader ends by returning its bytes
\* and then 0, and the writer ends by taking bytes and by flushing.
Completed == byteSinkIo.op = "poll_complete" /\ byteSinkIo.ret.t = "Ready"

SinkWakeUp ==
    /\ ~Completed
    /\ \E e \in {BsEntry("poll_complete")} : \E s \in SinkLoop(e) : BsReturn(s)

\* The owner has one reader to send.
NextByteSinkLive ==
    \/ byteSinkIo.offered = 0 /\ SinkStartSend
    \/ SinkWakeUp

SpecByteSinkLive ==
    InitByteSink /\ [][NextByteSinkLive]_vars /\ WF_vars(SinkWakeUp)

\* ------------------------------------------------------------------------
\* EasyBuf (frame.rs)
\* ------------------------------------------------------------------------

\* Bounds of the EasyBuf model: the length of the first vector, the
\* longest vector a mutation makes, and the operations made.
MaxVec == 3

MaxVecLen == 4

MaxEasyOps == 5

\* The byte a mutation writes.
NewByte == 9

\* The strong count of the Arc numbered b.
StrongCount(e, b) == Cardinality({w \in Windows : e.windows[w].live /\ e.windows[w].buf = b})

\* The slot a new window takes: the first one not alive.
FreeWindows(e) ==
    LET free == {w \in Windows : ~e.windows[w].live} IN
    {w \in free : \A x \in free : w <= x}

FreeVectors(e) == {b \in Vectors : StrongCount(e, b) = 0}

\* What a slice expression out of the vector's range gives: a panic.
SlicePanic == <<-1>>

\* as_slice / as_ref: &self.buf[self.start..self.end]
AsSlice(e, w) ==
    LET v == e.heap[e.windows[w].buf]
        start == e.windows[w].start
        end == e.windows[w].end
    IN  IF start <= end /\ end <= Len(v) THEN SubSeq(v, start + 1, end) ELSE SlicePanic

\* A split_off whose other window keeps the start of self (mutant of
\* SplitOff).
SplitOffOverlapping(e, w, o, at) ==
    [e EXCEPT !.windows[o] = e.windows[w],
              !.windows[w].end = e.windows[w].start + at]

\* split_off(at): other is a clone with start moved to start + at, and self
\* ends there.
SplitOff(e, w, o, at) ==
    LET idx == e.windows[w].start + at IN
    [e EXCEPT !.windows[o] = [e.windows[w] EXCEPT !.start = idx],
              !.windows[w].end = idx]

\* drain_to(at): other is a clone ending at start + at, and self starts
\* there.
DrainTo(e, w, o, at) ==
    LET idx == e.windows[w].start + at IN
    [e EXCEPT !.windows[o] = [e.windows[w] EXCEPT !.end = idx],
              !.windows[w].start = idx]

\* #[derive(Clone)]
CloneBuf(e, w, o) == [e EXCEPT !.windows[o] = e.windows[w]]

\* Dropping an EasyBuf; the vector goes with the last Arc.
DropBuf(e, w) ==
    LET b == e.windows[w].buf
        r == [e EXCEPT !.windows[w] = NoWindow]
    IN  IF StrongCount(r, b) = 0 THEN [r EXCEPT !.heap[b] = <<>>] ELSE r

\* A test that hands out the shared vector (mutant of SoleOwner).
SoleOwnerAlways(e, w) == TRUE

\* Arc::get_mut(&mut self.buf).is_some()
SoleOwner(e, w) == StrongCount(e, e.windows[w].buf) = 1

\* get_mut: the sole owner drains the vector up to start; otherwise the
\* visible bytes are copied into a fresh vector n.  start becomes 0.
GetMut(e, w, n) ==
    IF SoleOwner(e, w)
    THEN [e EXCEPT !.heap[e.windows[w].buf] = Drop(@, e.windows[w].start),
                   !.windows[w].start = 0]
    ELSE [e EXCEPT !.heap[n] = AsSlice(e, w),
                   !.windows[w].start = 0,
                   !.windows[w].buf = n]

\* The Vec<u8> operations made through DerefMut.
VecOps(v) ==
    (IF Len(v) < MaxVecLen THEN {[k |-> "push", i |-> 0]} ELSE {})
    \cup {[k |-> "truncate", i |-> i] : i \in 0..(Len(v) - 1)}
    \cup {[k |-> "set", i |-> i] : i \in 1..Len(v)}
    \cup (IF v # <<>> THEN {[k |-> "drain", i |-> 1]} ELSE {})

VecApply(v, o) ==
    CASE o.k = "push" -> Append(v, NewByte)
      [] o.k = "truncate" -> Take(v, o.i)
      [] o.k = "set" -> [v EXCEPT ![o.i] = NewByte]
      [] o.k = "drain" -> Drop(v, o.i)

\* Drop for EasyBufMut: *self.end = self.buf.len()
DropMut(e, w) == [e EXCEPT !.windows[w].end = Len(e.heap[e.windows[w].buf])]

\* The windows a call can be made on: alive and not borrowed by a handle.
Usable(w) ==
    /\ easyBufIo.ops < MaxEasyOps
    /\ easyBuf.windows[w].live
    /\ easyBufIo.handle # w

EbReturn(e, op, w) ==
    /\ easyBuf' = e
    /\ easyBufIo' = [easyBufIo EXCEPT !.op = op, !.w = w, !.ops = @ + 1, !.at = 0]
    /\ UNCHANGED <<frVars, fwVars, bwVars, brVars, bsVars, efVars>>

InitEasyBuf ==
    /\ \E n \in 0..MaxVec : easyBuf = EasyBufFrom(Iota(n))
    /\ easyBufIo = EasyBufIoStart
    /\ EasyFramedIdle
    /\ FramedReadIdle
    /\ FramedWriteIdle
    /\ BufWriterIdle
    /\ BufReaderIdle
    /\ ByteSinkIdle

\* EasyBuf::split_off with at <= len
EbSplitOff ==
    \E w \in Windows, o \in FreeWindows(easyBuf) :
        /\ Usable(w)
        /\ \E at \in 0..(easyBuf.windows[w].end - easyBuf.windows[w].start) :
              /\ easyBuf' = SplitOff(easyBuf, w, o, at)
              /\ easyBufIo' = [easyBufIo EXCEPT !.op = "split_off", !.w = w,
                                                !.ops = @ + 1, !.at = at]
              /\ UNCHANGED <<frVars, fwVars, bwVars, brVars, bsVars, efVars>>

\* EasyBuf::drain_to with at <= len
EbDrainTo ==
    \E w \in Windows, o \in FreeWindows(easyBuf) :
        /\ Usable(w)
        /\ \E at \in 0..(easyBuf.windows[w].end - easyBuf.windows[w].start) :
              /\ easyBuf' = DrainTo(easyBuf, w, o, at)
              /\ easyBufIo' = [easyBufIo EXCEPT !.op = "drain_to", !.w = w,
                                                !.ops = @ + 1, !.at = at]
              /\ UNCHANGED <<frVars, fwVars, bwVars, brVars, bsVars, efVars>>

\* EasyBuf::clone
EbClone ==
    \E w \in Windows, o \in FreeWindows(easyBuf) :
        /\ Usable(w)
        /\ EbReturn(CloneBuf(easyBuf, w, o), "clone", w)

\* drop(EasyBuf)
EbDrop ==
    \E w \in Windows :
        /\ Usable(w)
        /\ EbReturn(DropBuf(easyBuf, w), "drop", w)

\* EasyBuf::get_mut; the handle stays alive until EbDropMut.
EbGetMut ==
    \E w \in Windows :
        /\ Usable(w)
        /\ easyBufIo.handle = 0
        /\ LET n == CHOOSE b \in Vectors :
                       SoleOwner(easyBuf, w) \/ b \in FreeVectors(easyBuf)
           IN  /\ easyBuf' = GetMut(easyBuf, w, n)
               /\ easyBufIo' = [handle |-> w, op |-> "get_mut", w |-> w,
                                copied |-> ~SoleOwner(easyBuf, w),
                                ops |-> easyBufIo.ops + 1, at |-> 0]
        /\ UNCHANGED <<frVars, fwVars, bwVars, brVars, bsVars, efVars>>

\* A Vec<u8> operation through the live EasyBufMut.
EbMutate ==
    /\ easyBufIo.handle # 0
    /\ easyBufIo.ops < MaxEasyOps
    /\ LET w == easyBufIo.handle
           b == easyBuf.windows[w].buf
       IN  \E o \in VecOps(easyBuf.heap[b]) :
              EbReturn([easyBuf EXCEPT !.heap[b] = VecApply(@, o)], "mutate", w)

\* The EasyBufMut goes out of scope.
EbDropMut ==
    /\ easyBufIo.handle # 0
    /\ easyBufIo.ops < MaxEasyOps
    /\ easyBuf' = DropMut(easyBuf, easyBufIo.handle)
    /\ easyBufIo' = [easyBufIo EXCEPT !.handle = 0, !.op = "drop_mut",
                                      !.w = easyBufIo.handle, !.ops = @ + 1,
                                      !.at = 0]
    /\ UNCHANGED <<frVars, fwVars, bwVars, brVars, bsVars, efVars>>

NextEasyBuf ==
    \/ EbSplitOff
    \/ EbDrainTo
    \/ EbClone
    \/ EbDrop
    \/ EbGetMut
    \/ EbMutate
    \/ EbDropMut

SpecEasyBuf == InitEasyBuf /\ [][NextEasyBuf]_vars

\* ------------------------------------------------------------------------
\* Properties of FramedRead
\* ------------------------------------------------------------------------

FrameCount(input) == Len(input) \div FrameLen

\* The i-th frame of the input.
ExpectedFrame(input, i) == BE32(SubSeq(input, FrameLen * (i - 1) + 1, FrameLen * i))

ReadyValues(out) == SelectSeq(out, LAMBDA r : r.t # "NotReady")

CountOf(out, t) == Len(SelectSeq(out, LAMBDA r : r.t = t))

\* C1: with an input of 4*k bytes, however it is split into packets and
\* wherever WouldBlock is inserted, the results of the polls other than
\* NotReady are the k frames in input order and then Ready(None); every
\* NotReady answers one WouldBlock of the source.
C1_PacketizationIndependent ==
    (Len(readIo.input) % FrameLen = 0 /\ readIo.readErrs = 0) =>
        LET rv == ReadyValues(readIo.out) IN
        /\ \A i \in 1..Len(rv) :
              rv[i] = IF i <= FrameCount(readIo.input)
                      THEN [t |-> "Some", v |-> ExpectedFrame(readIo.input, i)]
                      ELSE [t |-> "None", v |-> 0]
        /\ CountOf(readIo.out, "NotReady") = readIo.wouldBlocks

\* Two frames received in at least three packets with a WouldBlock in
\* between, and the end of the stream reported.
C1_Witness ==
    /\ Len(readIo.input) = 2 * FrameLen
    /\ readIo.readErrs = 0
    /\ readIo.wouldBlocks >= 1
    /\ readIo.reads >= 5
    /\ CountOf(readIo.out, "Some") = 2
    /\ readIo.ret.t = "None"

\* C8: once a poll has returned Ready(None), every later poll returns
\* Ready(None) and neither reads the source nor calls decode or decode_eof.
C8_NoDoubleEof ==
    [][readIo.ret.t = "None" =>
        /\ readIo'.ret.t = "None"
        /\ readIo'.reads = readIo.reads
        /\ readIo'.decodes = readIo.decodes
        /\ readIo'.eofDecodes = readIo.eofDecodes]_vars

\* Ready(None) has been returned by two polls in a row, after a frame.
C8_Witness ==
    /\ Len(readIo.out) >= 3
    /\ readIo.out[Len(readIo.out)].t = "None"
    /\ readIo.out[Len(readIo.out) - 1].t = "None"
    /\ CountOf(readIo.out, "Some") >= 1

\* C9 as stated: decode_eof is called exactly once if the buffer was
\* non-empty when the source reported EOF, never if it was empty, and in no
\* run more than once.
C9_Original ==
    /\ readIo.eofDecodes <= 1
    /\ readIo.eofLen = 0 => readIo.eofDecodes = 0
    /\ readIo.eofLen > 0 => readIo.eofDecodes = 1

\* The number of decode_eof calls a poll makes: one iff, when the poll
\* reaches the eof branch, the buffer is non-empty.
EofDecodesOfPoll ==
    IF framedRead.eof
    THEN (IF framedRead.buffer # <<>> THEN 1 ELSE 0)
    ELSE (IF readIo'.eofLen > 0 THEN 1 ELSE 0)

\* C9 (amended): decode_eof is never called before the source reports EOF
\* nor when the buffer was empty at that moment; when the buffer was
\* non-empty, the poll that observes EOF calls it once and every later poll
\* calls it once more for as long as the buffer is non-empty; no poll calls
\* it twice.
C9_DecodeEofPerPoll ==
    /\ [](/\ readIo.eofLen <= 0 => readIo.eofDecodes = 0
          /\ readIo.eofLen > 0 => readIo.eofDecodes >= 1)
    /\ [][readIo'.eofDecodes = readIo.eofDecodes + EofDecodesOfPoll]_vars

\* decode_eof has been called by two polls, and a stream that ended on an
\* empty buffer exists as well (checked by the invariant part above).
C9_Witness ==
    /\ readIo.eofLen > 0
    /\ readIo.eofDecodes >= 2

\* The read_buf calls of a step that returned a count.
SuccessfulReads ==
    (readIo'.reads - readIo.reads)
    - (readIo'.wouldBlocks - readIo.wouldBlocks)
    - (readIo'.readErrs - readIo.readErrs)

\* The decoder calls of a step, decode and decode_eof.
DecoderCalls ==
    (readIo'.decodes - readIo.decodes) + (readIo'.eofDecodes - readIo.eofDecodes)

\* C28: poll reads the source only when is_readable is false, that is after
\* the most recent decode returned None or before any byte was buffered, and
\* never while a successful read has not been followed by a decoder call; a
\* poll makes a decoder call for each of its successful reads, but for the
\* one that reports EOF on an empty buffer.
C28_DecodeBeforeRefill ==
    /\ [](/\ readIo.readableReads = 0
          /\ readIo.hastyReads = 0
          /\ readIo.staleReads = 0)
    /\ [][DecoderCalls >=
            SuccessfulReads - (IF readIo'.eofLen = 0 /\ readIo.eofLen = -1
                               THEN 1 ELSE 0)]_vars

\* A frame that took three reads, each but the last followed by a decode
\* that returned None, with a WouldBlock on the way.
C28_Witness ==
    /\ readIo.reads >= 4
    /\ readIo.wouldBlocks >= 1
    /\ readIo.decodes >= 3
    /\ readIo.lastDecode = "Some"
    /\ readIo.ret.t = "Some"
    /\ Len(readIo.frames) = 1

\* The frames the polls have returned, in order.
FramesOut(out) == [i \in 1..CountOf(out, "Some") |-> SelectSeq(out, LAMBDA r : r.t = "Some")[i].v]

\* C29: a poll returns Ready(Some(frame)) exactly when one decode or
\* decode_eof call of that poll returned a frame, and it is that frame; the
\* frames the decoder has returned are the frames the polls have returned,
\* each once and in order.
C29_FramesAreDecoderFrames ==
    /\ [](readIo.frames = FramesOut(readIo.out))
    /\ [][/\ readIo'.ret.t = "Some" =>
                /\ readIo'.frames = Append(readIo.frames, readIo'.ret.v)
                /\ DecoderCalls >= 1
          /\ readIo'.ret.t # "Some" => readIo'.frames = readIo.frames]_vars

\* Frames from decode and a last one from decode_eof have been returned.
C29_Witness ==
    /\ Len(readIo.frames) >= 2
    /\ readIo.decodes >= 2
    /\ readIo.eofDecodes >= 1
    /\ readIo.lastDecode = "eof"
    /\ readIo.ret = [t |-> "Some", v |-> Last(readIo.frames)]

\* C38: no poll fails the assertion !eof: eof implies is_readable in every
\* state, also after decode, decode_eof and read errors; eof is set exactly
\* when the source has returned 0 bytes, and no poll made with eof set reads
\* the source.
C38_EofAssertionHolds ==
    /\ [](/\ readIo.ret.t # "Panic"
          /\ framedRead.eof => framedRead.is_readable
          /\ framedRead.eof <=> readIo.eofLen >= 0
          /\ framedRead.eof => readIo.delivered = Len(readIo.input))
    /\ [][framedRead.eof => readIo'.reads = readIo.reads]_vars

\* After a decode error and a read error the source has reported EOF on a
\* non-empty buffer, decode_eof has failed, and a poll has been made since.
C38_Witness ==
    /\ readIo.eofMode = "failing"
    /\ CountOf(readIo.out, "ErrDecode") >= 1
    /\ readIo.readErrs >= 1
    /\ framedRead.eof
    /\ readIo.eofLen > 0
    /\ readIo.eofDecodes >= 2
    /\ readIo.ret.t = "ErrBytesRemaining"

\* C10: with the default decode_eof, when the source reports EOF while the
\* buffer holds bytes that decode declined, the poll returns the "bytes
\* remaining on stream" error; no frame and no Ready(None) is ever yielded
\* for those bytes, which stay in the buffer.
C10_PrematureEofIsError ==
    (readIo.eofMode = "default" /\ readIo.eofLen > 0) =>
        /\ Decode(framedRead.buffer).t = "None"
        /\ readIo.ret.t = "ErrBytesRemaining"
        /\ CountOf(readIo.out, "ErrBytesRemaining") = readIo.eofDecodes
        /\ readIo.eofDecodes >= 1
        /\ Len(framedRead.buffer) = readIo.eofLen

\* A frame was yielded, then EOF came in the middle of the next frame.
C10_Witness ==
    /\ readIo.eofMode = "default"
    /\ readIo.eofLen > 0
    /\ CountOf(readIo.out, "Some") = 1
    /\ readIo.ret.t = "ErrBytesRemaining"

\* C11: a poll whose read met WouldBlock returns NotReady, does not set
\* eof, and leaves in the buffer the bytes that were buffered followed by
\* the bytes read during the poll; the poll that then yields a frame yields
\* the frame made of the buffered bytes and the bytes that follow them in
\* the input.
C11_WouldBlockKeepsBuffer ==
    [][/\ readIo'.wouldBlocks > readIo.wouldBlocks =>
            /\ readIo'.ret.t = "NotReady"
            /\ framedRead'.eof = framedRead.eof
            /\ framedRead'.buffer =
                  framedRead.buffer \o
                  SubSeq(readIo.input, readIo.delivered + 1, readIo'.delivered)
       /\ (readIo.ret.t = "NotReady" /\ ~framedRead'.eof /\ readIo'.ret.t = "Some") =>
            readIo'.ret.v =
                BE32(Take(framedRead.buffer \o Drop(readIo.input, readIo.delivered),
                          FrameLen))]_vars

\* Half a frame was buffered when the read met WouldBlock, and the next
\* poll yielded the frame.
C11_Witness ==
    /\ Len(readIo.input) >= FrameLen
    /\ Len(readIo.out) >= 2
    /\ readIo.out[Len(readIo.out) - 1].t = "NotReady"
    /\ readIo.out[Len(readIo.out)] = [t |-> "Some", v |-> ExpectedFrame(readIo.input, 1)]
    /\ readIo.wouldBlocks = 1
    /\ readIo.reads = 3
    /\ ~framedRead.eof

\* C12: a poll returns the I/O error exactly when its read failed with an
\* error other than WouldBlock, whatever is buffered and whatever the
\* earlier polls returned.
C12_ReadErrorReturned ==
    [][(readIo'.readErrs > readIo.readErrs) <=> (readIo'.ret.t = "ErrIo")]_vars

\* Part of a frame is buffered, a poll returned NotReady, and the next
\* poll's read failed.
C12_Witness ==
    /\ Len(readIo.out) >= 2
    /\ readIo.out[Len(readIo.out) - 1].t = "NotReady"
    /\ readIo.ret.t = "ErrIo"
    /\ framedRead.buffer # <<>>
    /\ Len(framedRead.buffer) < FrameLen

\* ------------------------------------------------------------------------
\* Properties of FramedWrite
\* ------------------------------------------------------------------------

\* The encodings of the items, one after the other.
RECURSIVE Encodings(_)
Encodings(items) ==
    IF items = <<>> THEN <<>>
    ELSE Encode(Last(items), Encodings(SubSeq(items, 1, Len(items) - 1)))

\* C2: start_send attempts a poll_complete iff the buffer holds >= 8192
\* bytes on entry, and returns NotReady(item) iff the buffer still holds
\* >= 8192 bytes after that attempt; then the encoder has not been called,
\* the buffer has not been extended and the item comes back.  Every other
\* call that does not fail encodes the item at the end of the buffer and
\* returns Ready.
C2_Backpressure ==
    [][(writeIo'.op = "start_send" /\ writeIo'.calls = writeIo.calls + 1
            /\ ~IsErr(writeIo'.ret)) =>
        LET entry == RLen(framedWrite.buffer)
            drained == RLen(writeIo'.written) - RLen(writeIo.written)
        IN
        /\ (writeIo'.lenAfterFlush # -1) <=> (entry >= 8192)
        /\ (writeIo'.ret.t = "NotReady") <=>
               (entry >= 8192 /\ writeIo'.lenAfterFlush >= 8192)
        /\ writeIo'.ret.t = "NotReady" =>
               /\ writeIo'.ret.v = writeIo'.item.id
               /\ writeIo'.encodes = writeIo.encodes
               /\ writeIo'.accepted = writeIo.accepted
               /\ framedWrite'.buffer = RDrop(framedWrite.buffer, drained)
               /\ RLen(framedWrite'.buffer) = writeIo'.lenAfterFlush
        /\ writeIo'.ret.t # "NotReady" =>
               /\ writeIo'.ret.t = "Ready"
               /\ writeIo'.encodes = writeIo.encodes + 1
               /\ writeIo'.accepted = Append(writeIo.accepted, writeIo'.item)
               /\ framedWrite'.buffer =
                     Encode(writeIo'.item, RDrop(framedWrite.buffer, drained))]_vars

\* A send refused with exactly 8192 bytes pending that could not be drained.
C2_Witness ==
    /\ writeIo.op = "start_send"
    /\ writeIo.ret.t = "NotReady"
    /\ writeIo.lenOnEntry = 8192
    /\ writeIo.lenAfterFlush = 8192
    /\ RLen(framedWrite.buffer) = 8192

\* C3: the bytes the underlying writer has accepted followed by the bytes
\* still buffered are the encodings of the accepted items in start_send
\* order; a poll_complete whose write met WouldBlock returns NotReady with
\* exactly the bytes not yet written in the buffer.
C3_OrderPreserved ==
    /\ RCat(writeIo.written, framedWrite.buffer) = Encodings(writeIo.accepted)
    /\ (writeIo.op = "poll_complete" /\ writeIo.lastIo = "write_wb") =>
          /\ writeIo.ret.t = "NotReady"
          /\ framedWrite.buffer # <<>>
          /\ framedWrite.buffer =
                RDrop(Encodings(writeIo.accepted), RLen(writeIo.written))

\* A poll_complete that wrote part of two items' bytes and then met
\* WouldBlock.
C3_Witness ==
    /\ writeIo.op = "poll_complete"
    /\ writeIo.lastIo = "write_wb"
    /\ writeIo.shorts >= 1
    /\ Len(writeIo.accepted) >= 2
    /\ writeIo.written # <<>>
    /\ framedWrite.buffer # <<>>

\* The outcomes of a flush of the underlying writer.
Flushes == {"flush_ok", "flush_wb", "flush_err"}

\* C30: poll_complete (and close, which runs it) returns Ready only with an
\* empty buffer and after the flush of the underlying writer succeeded in
\* that call; the flush is made only once the buffer is empty, also when
\* start_send runs poll_complete; a WouldBlock of the flush gives NotReady.
C30_ReadyMeansFlushed ==
    /\ writeIo.op \in {"poll_complete", "close"} =>
          /\ writeIo.ret.t = "Ready" =>
                framedWrite.buffer = <<>> /\ writeIo.lastIo = "flush_ok"
          /\ writeIo.lastIo \in Flushes => framedWrite.buffer = <<>>
          /\ writeIo.lastIo = "flush_wb" => writeIo.ret.t = "NotReady"
    /\ (writeIo.op = "start_send" /\ writeIo.lastIo \in Flushes) =>
          \/ writeIo.lenAfterFlush = 0
          \/ IsErr(writeIo.ret) /\ framedWrite.buffer = <<>>

\* A poll_complete that found bytes, wrote them in two writes, flushed and
\* returned Ready.
C30_Witness ==
    /\ writeIo.op = "poll_complete"
    /\ writeIo.lenOnEntry > 0
    /\ writeIo.shorts >= 1
    /\ writeIo.lastIo = "flush_ok"
    /\ writeIo.ret.t = "Ready"
    /\ framedWrite.buffer = <<>>

\* ------------------------------------------------------------------------
\* Properties of BufWriter
\* ------------------------------------------------------------------------

\* C4: the bytes the inner writer has received followed by the pending bytes
\* of the buffer are the bytes of the caller's data accepted so far, in
\* order; after a successful flush nothing is pending, so that once all the
\* data has been submitted the inner writer has received exactly the data.
C4_WriteThrough ==
    /\ bufWriterIo.received \o Pending(bufWriter) =
          Take(bufWriterIo.data, bufWriterIo.sent)
    /\ (bufWriterIo.op = "flush" /\ bufWriterIo.ret.t = "Ok") =>
          /\ Pending(bufWriter) = <<>>
          /\ bufWriterIo.received = Take(bufWriterIo.data, bufWriterIo.sent)
          /\ bufWriterIo.sent = Len(bufWriterIo.data) =>
                bufWriterIo.received = bufWriterIo.data

\* All the data submitted through a buffer smaller than the data, in more
\* inner writes than one, and flushed.
C4_Witness ==
    /\ bufWriterIo.op = "flush"
    /\ bufWriterIo.ret.t = "Ok"
    /\ bufWriterIo.failures = 0
    /\ Len(bufWriterIo.data) = MaxData
    /\ bufWriter.capacity < MaxData
    /\ bufWriterIo.sent = Len(bufWriterIo.data)
    /\ bufWriterIo.innerWrites >= 3

\* C22 as stated: a successful write whose source fits in the remaining
\* capacity makes no write on the inner writer, and one whose source does
\* not fit has sent all the bytes buffered before to the inner writer.
C22_Original ==
    [][(bufWriterIo'.op = "write" /\ bufWriterIo'.ret.t = "Ok") =>
        IF bufWriterIo'.len <= RemainingMut(bufWriter)
        THEN bufWriterIo'.innerWrites = bufWriterIo.innerWrites
        ELSE IsPrefix(bufWriterIo.received \o Pending(bufWriter), bufWriterIo'.received)]_vars

\* C22 (amended): a successful write whose source fits in the remaining
\* capacity makes no write on the inner writer and buffers the source,
\* unless nothing is pending and the source is as long as the remaining
\* capacity, when it is written directly by one inner write; a write whose
\* source does not fit while bytes are pending first makes an inner write
\* of pending bytes, which may accept only some of them; in every case the
\* inner writer receives the bytes buffered before, in order, before any
\* byte of the source.
C22_DefersOutput ==
    [][(bufWriterIo'.op = "write" /\ bufWriterIo'.ret.t = "Ok") =>
        LET pending == Pending(bufWriter)
            rem == RemainingMut(bufWriter)
            len == bufWriterIo'.len
            n == bufWriterIo'.ret.v
        IN  /\ bufWriterIo'.received \o Pending(bufWriter') =
                  bufWriterIo.received \o pending \o Take(Source(bufWriterIo, len), n)
            /\ (len <= rem /\ ~(pending = <<>> /\ len = rem)) =>
                  /\ bufWriterIo'.innerWrites = bufWriterIo.innerWrites
                  /\ n = len
                  /\ Pending(bufWriter') = pending \o Source(bufWriterIo, len)
            /\ (len <= rem /\ pending = <<>> /\ len = rem) =>
                  /\ bufWriterIo'.innerWrites = bufWriterIo.innerWrites + 1
                  /\ bufWriterIo'.received = bufWriterIo.received \o Take(Source(bufWriterIo, len), n)
            /\ (len > rem /\ pending # <<>>) =>
                  /\ bufWriterIo'.innerWrites > bufWriterIo.innerWrites
                  /\ \E k \in 1..Len(pending) :
                        IsPrefix(bufWriterIo.received \o Take(pending, k), bufWriterIo'.received)]_vars

\* The writes of the test, scaled to a capacity of 2: two writes of a byte
\* have given the inner writer nothing, the third has sent it the two
\* bytes and buffered its own.
C22_Witness ==
    /\ bufWriter.capacity = 2
    /\ bufWriterIo.op = "write"
    /\ bufWriterIo.ret = [t |-> "Ok", v |-> 1]
    /\ bufWriterIo.sent = 3
    /\ bufWriterIo.innerWrites = 1
    /\ bufWriterIo.failures = 0
    /\ bufWriterIo.received = <<1, 2>>
    /\ Pending(bufWriter) = <<3>>

\* C23: when shutdown has invoked the shutdown of the inner writer, no
\* bytes are pending and the inner writer has received every byte accepted
\* before; a shutdown whose draining failed has not invoked it, and Ready
\* is the answer of the inner writer's shutdown.
C23_ShutdownFlushesFirst ==
    LET invoked == bufWriterIo.lastIo \in {"shutdown_ready", "shutdown_not_ready", "shutdown_err"}
    IN  /\ invoked =>
              /\ bufWriterIo.op = "shutdown"
              /\ Pending(bufWriter) = <<>>
              /\ bufWriterIo.received = Take(bufWriterIo.data, bufWriterIo.sent)
        /\ (bufWriterIo.op = "shutdown" /\ Pending(bufWriter) # <<>>) =>
              /\ ~invoked
              /\ bufWriterIo.ret.t \in {"ErrWouldBlock", "ErrIo", "ErrWriteZero"}
        /\ (bufWriterIo.op = "shutdown" /\ bufWriterIo.ret.t = "Ready") =>
              bufWriterIo.lastIo = "shutdown_ready"

\* shutdown has drained two buffered bytes in two inner writes and the
\* inner writer's shutdown has answered Ready.
C23_Witness ==
    /\ bufWriterIo.op = "shutdown"
    /\ bufWriterIo.ret.t = "Ready"
    /\ bufWriterIo.lastIo = "shutdown_ready"
    /\ bufWriterIo.innerWrites = 2
    /\ bufWriterIo.received = <<1, 2>>
    /\ bufWriterIo.sent = 2
    /\ bufWriterIo.failures = 0
    /\ bufWriter.capacity = 3

\* C24 as stated: when write_buf returns Ready(k), k is the count of bytes
\* the call consumed from its source, and the inner writer has received the
\* bytes pending before it ahead of any byte of the source.
C24_Original ==
    (bufWriterIo.op = "write_buf" /\ bufWriterIo.ret.t = "Ready") =>
        /\ bufWriterIo.ret.v = bufWriterIo.taken
        /\ bufWriterIo.received \o Pending(bufWriter) =
              Take(bufWriterIo.data, bufWriterIo.sent)

\* C14 as stated: whenever close returns Ready, the buffer is empty and
\* shutdown has been invoked on the underlying writer.
C14_Original ==
    (writeIo.op = "close" /\ writeIo.ret.t = "Ready") =>
        /\ framedWrite.buffer = <<>>
        /\ writeIo.shutdowns >= 1

\* C15 as stated: an async operation of BufWriter never returns an error of
\* kind WouldBlock.
C15_Original ==
    bufWriterIo.op \in {"shutdown", "write_buf"} => bufWriterIo.ret.t # "ErrWouldBlock"

\* C16 as stated: when into_inner returns, the inner writer has received
\* every byte write accepted.
C16_Original ==
    bufWriterIo.op = "into_inner" =>
        bufWriterIo.received = Take(bufWriterIo.data, bufWriterIo.sent)

\* C17: a write that returns an error has accepted nothing: the caller's
\* count is unchanged and the bytes received by the inner writer followed
\* by the pending ones are what they were, the failed flush having at most
\* moved pending bytes to the inner writer; so the bytes accepted before
\* are each pending or delivered once, and a flush and the same write
\* again deliver every byte once.
C17_FailedWriteAcceptsNothing ==
    /\ [][(bufWriterIo'.op = "write" /\ bufWriterIo'.ret.t # "Ok") =>
            /\ bufWriterIo'.sent = bufWriterIo.sent
            /\ bufWriterIo'.received \o Pending(bufWriter') =
                  bufWriterIo.received \o Pending(bufWriter)
            /\ IsPrefix(bufWriterIo.received, bufWriterIo'.received)]_vars
    /\ [](bufWriterIo.received \o Pending(bufWriter) =
            Take(bufWriterIo.data, bufWriterIo.sent))

\* A write has failed with WouldBlock in its flush_all, after its flush_once
\* had moved some of the pending bytes to the inner writer.
C17_Witness ==
    /\ bufWriterIo.op = "write"
    /\ bufWriterIo.ret.t = "ErrWouldBlock"
    /\ bufWriterIo.innerWrites >= 2
    /\ bufWriterIo.failures = 1
    /\ bufWriterIo.received # <<>>
    /\ Pending(bufWriter) # <<>>
    /\ bufWriterIo.sent < Len(bufWriterIo.data)

\* C37: 0 <= cursor <= len <= capacity in every state, with the capacity
\* the BufWriter was created with; the cursor is at the length only when
\* both are 0; a call that leaves bytes of the buffer where they were has
\* appended no more bytes than there was space.
C37_CapacityInvariant ==
    /\ [](/\ 0 <= bufWriter.position
          /\ bufWriter.position <= Len(bufWriter.buf)
          /\ Len(bufWriter.buf) <= bufWriter.capacity
          /\ bufWriter.position = Len(bufWriter.buf) => bufWriter.position = 0)
    /\ [][/\ bufWriter'.capacity = bufWriter.capacity
          /\ bufWriter'.position >= bufWriter.position =>
                Len(bufWriter'.buf) - Len(bufWriter.buf) <= RemainingMut(bufWriter)]_vars

\* A write_buf has filled the buffer to its capacity behind bytes still
\* pending, of which a part is written.
C37_Witness ==
    /\ bufWriterIo.op = "write_buf"
    /\ bufWriterIo.ret.t = "Ready"
    /\ 0 < bufWriter.position
    /\ bufWriter.position < Len(bufWriter.buf)
    /\ Len(bufWriter.buf) = bufWriter.capacity

\* ------------------------------------------------------------------------
\* Properties of both writers
\* ------------------------------------------------------------------------

\* C13: a call of FramedWrite2 (poll_complete, also the one start_send
\* makes) or a BufWriter::flush whose write of pending bytes returned 0
\* returns the WriteZero error, with the bytes still pending; and the
\* WriteZero error has no other origin.
C13_WriteZeroFatal ==
    /\ writeIo.lastIo = "write_zero" =>
          /\ writeIo.ret.t = "ErrWriteZero"
          /\ framedWrite.buffer # <<>>
    /\ writeIo.ret.t = "ErrWriteZero" => writeIo.lastIo = "write_zero"
    /\ bufWriterIo.lastIo = "write_zero" =>
          /\ bufWriterIo.ret.t = "ErrWriteZero"
          /\ Pending(bufWriter) # <<>>
    /\ bufWriterIo.ret.t = "ErrWriteZero" => bufWriterIo.lastIo = "write_zero"

\* A poll_complete that wrote part of the buffer and then met a write of 0.
C13_Witness ==
    /\ writeIo.op = "poll_complete"
    /\ writeIo.lastIo = "write_zero"
    /\ writeIo.written # <<>>
    /\ writeIo.shorts >= 1

\* A flush that wrote part of the pending bytes and then met a write of 0.
C13_WitnessFlush ==
    /\ bufWriterIo.op = "flush"
    /\ bufWriterIo.lastIo = "write_zero"
    /\ bufWriterIo.received # <<>>

\* ------------------------------------------------------------------------
\* Properties of BufReader
\* ------------------------------------------------------------------------

\* C5: the bytes handed to the caller so far, followed by the unread bytes of
\* the buffer, are the bytes the inner reader has delivered, in order; a
\* read that returns 0 at the end of the input has handed out all of them.
C5_ByteExact ==
    /\ bufReaderIo.out \o SubSeq(bufReader.buf, bufReader.pos + 1, bufReader.cap) =
          Take(bufReaderIo.data, bufReaderIo.offset[4])
    /\ (bufReaderIo.op = "read" /\ bufReaderIo.ret = [t |-> "Ok", v |-> 0]) =>
          /\ bufReaderIo.offset = U64(Len(bufReaderIo.data))
          /\ bufReaderIo.out = bufReaderIo.data

\* All the data read to the end, some calls served from the buffer and some
\* by the bypass.
C5_Witness ==
    /\ bufReaderIo.op = "read"
    /\ bufReaderIo.ret = [t |-> "Ok", v |-> 0]
    /\ Len(bufReaderIo.data) = MaxBytes
    /\ bufReaderIo.bypasses >= 1
    /\ bufReaderIo.innerReads > bufReaderIo.bypasses + 1
    /\ bufReaderIo.failures = 0

\* C18: a successful seek leaves pos == cap; the fill_buf or read that
\* follows it makes one inner read and hands out the bytes the inner
\* reader has at the position of the seek, none of those buffered before.
C18_SeekResetsBuffer ==
    /\ []((bufReaderIo.op = "seek" /\ bufReaderIo.ret.t = "Ok") =>
            bufReader.pos = bufReader.cap)
    /\ [][(/\ bufReaderIo.op = "seek"
           /\ bufReaderIo.ret.t = "Ok"
           /\ bufReaderIo'.op \in {"fill_buf", "read"}
           /\ bufReaderIo'.ret.t = "Ok") =>
            /\ bufReaderIo'.innerReads = bufReaderIo.innerReads + 1
            /\ bufReaderIo'.op = "fill_buf" =>
                  /\ bufReaderIo'.got = NextBytes(bufReaderIo, Len(bufReaderIo'.got))
                  /\ bufReaderIo'.offset = Add64(bufReaderIo.offset, U64(Len(bufReaderIo'.got)))
            /\ bufReaderIo'.op = "read" =>
                  bufReaderIo'.out =
                      bufReaderIo.out \o NextBytes(bufReaderIo, bufReaderIo'.ret.v)]_vars

\* A fill_buf has filled the buffer, a seek to the start went over the
\* unread bytes, and the fill_buf after it has returned the first bytes.
C18_Witness ==
    /\ bufReaderIo.kind = "data"
    /\ bufReaderIo.calls = 3
    /\ bufReaderIo.op = "fill_buf"
    /\ bufReaderIo.got = <<1, 2>>
    /\ bufReaderIo.innerReads = 2
    /\ bufReaderIo.offset = U64(2)

\* C19: a successful seek(Current(n)) returns, and leaves the inner reader
\* at, its position less the unread buffered bytes plus n (in u64).
C19_SeekCurrentRelative ==
    [][(/\ bufReaderIo'.op = "seek"
        /\ bufReaderIo'.arg.whence = "Current"
        /\ bufReaderIo'.ret.t = "Ok") =>
            LET remainder == U64(bufReader.cap - bufReader.pos)
                target == Add64(Sub64(bufReaderIo.offset, remainder), bufReaderIo'.arg.n)
            IN  /\ bufReaderIo'.result = target
                /\ bufReaderIo'.offset = target]_vars

\* seek(Current(0)) with two unread bytes has returned the position of the
\* next unread byte, two less than that of the inner reader.
C19_Witness ==
    /\ bufReaderIo.op = "seek"
    /\ bufReaderIo.ret.t = "Ok"
    /\ bufReaderIo.arg = SeekFrom("Current", I64(0))
    /\ bufReaderIo.seeks = <<SeekFrom("Current", I64(-2))>>
    /\ bufReaderIo.result = U64(1)

\* n - remainder is below i64::MIN.
Underflows(n, remainder) == IsNegative(n) /\ Less64(Sub64(n, I64_MIN), remainder)

\* 9223372036854775802 = 0x7FFF_FFFF_FFFF_FFFA
SeekUnderflowExpected == <<32767, 65535, 65535, 65530>>

\* C20: a successful seek(Current(n)) makes two inner seeks, Current of
\* -remainder and then Current(n), when n - remainder underflows i64, and
\* else the one inner seek Current(n - remainder); either way the inner
\* reader ends at its position less remainder plus n modulo 2^64 and the
\* buffer is empty; with the inner reader at u64::MAX and 5 unread bytes,
\* Current(i64::MIN) returns 9223372036854775802.
C20_SeekUnderflow ==
    [][(/\ bufReaderIo'.op = "seek"
        /\ bufReaderIo'.arg.whence = "Current"
        /\ bufReaderIo'.ret.t = "Ok") =>
            LET n == bufReaderIo'.arg.n
                remainder == U64(bufReader.cap - bufReader.pos)
            IN  /\ bufReaderIo'.seeks =
                      IF Underflows(n, remainder)
                      THEN <<SeekFrom("Current", Neg64(remainder)), SeekFrom("Current", n)>>
                      ELSE <<SeekFrom("Current", Sub64(n, remainder))>>
                /\ bufReaderIo'.offset = Add64(Sub64(bufReaderIo.offset, remainder), n)
                /\ bufReader'.pos = bufReader'.cap
                /\ (/\ bufReaderIo.offset = U64_MAX
                    /\ bufReader.cap - bufReader.pos = 5
                    /\ n = I64_MIN) =>
                        bufReaderIo'.result = SeekUnderflowExpected]_vars

\* The seek of the test: two inner seeks, from u64::MAX - 5 with 5 unread
\* bytes to 9223372036854775802.
C20_Witness ==
    /\ bufReaderIo.op = "seek"
    /\ bufReaderIo.ret.t = "Ok"
    /\ bufReaderIo.arg = SeekFrom("Current", I64_MIN)
    /\ bufReaderIo.seeks = <<SeekFrom("Current", I64(-5)), SeekFrom("Current", I64_MIN)>>
    /\ bufReaderIo.result = SeekUnderflowExpected

\* C21: a read that finds the buffer empty makes one inner read and
\* returns its count, capped by the length of the destination; a count of
\* 0 is returned by that read alone, the next read asks the inner reader
\* again (lengths 0, 1, 2, 0, 1, 0 give the counts 0, 1, 2, 0, 1, 0, 0).
C21_ShortReadsPropagate ==
    /\ [][(bufReaderIo'.op = "read" /\ bufReader.pos = bufReader.cap) =>
            LET n == IF bufReaderIo.innerReads < Len(bufReaderIo.lengths)
                     THEN bufReaderIo.lengths[bufReaderIo.innerReads + 1] ELSE 0
            IN  /\ bufReaderIo'.innerReads = bufReaderIo.innerReads + 1
                /\ bufReaderIo'.ret = [t |-> "Ok", v |-> Min(n, bufReaderIo'.len)]]_vars
    /\ []((/\ bufReaderIo.lengths = TestLengths
           /\ bufReaderIo.calls = 7
           /\ bufReaderIo.innerReads = 7) =>
            bufReaderIo.counts = <<0, 1, 2, 0, 1, 0, 0>>)

\* The reads of the test: seven reads, each an inner read, the fourth
\* returning 0 and the fifth 1.
C21_Witness ==
    /\ bufReaderIo.lengths = TestLengths
    /\ bufReaderIo.calls = 7
    /\ bufReaderIo.innerReads = 7
    /\ bufReaderIo.counts = <<0, 1, 2, 0, 1, 0, 0>>

\* C34: 0 <= pos <= cap <= len(buf) in every state; no call changes the
\* length of the buffer; consume(n) sets pos to min(pos + n, cap) and
\* leaves cap; a read, read_buf or fill_buf whose inner read fails leaves
\* pos, cap and the buffer as they were.
C34_BufReaderInvariant ==
    /\ [](/\ 0 <= bufReader.pos
          /\ bufReader.pos <= bufReader.cap
          /\ bufReader.cap <= Len(bufReader.buf))
    /\ [][/\ Len(bufReader'.buf) = Len(bufReader.buf)
          /\ bufReaderIo'.op = "consume" =>
                /\ bufReader'.pos = Min(bufReader.pos + bufReaderIo'.len, bufReader.cap)
                /\ bufReader'.cap = bufReader.cap
          /\ (/\ bufReaderIo'.op \in {"read", "read_buf", "fill_buf"}
              /\ bufReaderIo'.failures > bufReaderIo.failures) =>
                bufReader' = bufReader]_vars

\* A consume of more than was left has stopped at cap, on a buffer that a
\* fill_buf had filled.
C34_Witness ==
    /\ bufReaderIo.op = "consume"
    /\ bufReaderIo.len > bufReader.cap
    /\ bufReader.cap > 0
    /\ bufReader.pos = bufReader.cap

\* The call returned a count: Ok(n) of read, Ready(n) of read_buf.
Handed(ret) == ret.t \in {"Ok", "Ready"}

RECURSIVE Contents(_)
Contents(readers) ==
    IF readers = <<>> THEN <<>>
    ELSE RCat(Contents(SubSeq(readers, 1, Len(readers) - 1)),
              IF Last(readers).len = 0 THEN <<>>
              ELSE <<Run(Last(readers).id, 1, Last(readers).len)>>)

\* The bytes the active reader has not delivered yet.
Unread(r) == IF r.pos < r.len THEN <<Run(r.id, r.pos + 1, r.len)>> ELSE <<>>

\* C6: the bytes written, then the staged bytes not yet written, then the
\* bytes the active reader still holds, are the contents of the accepted
\* readers in acceptance order; the staging buffer holds bytes of the active
\* reader only, and the active reader is the last one accepted, so every
\* byte of the readers before it has been written; with no active reader
\* everything accepted has been written.
C6_ReaderOrdering ==
    /\ RCat(byteSinkIo.written,
            RCat(Slice(byteSink.buffer, byteSink.read_cursor, byteSink.write_cursor),
                 Unread(byteSink.read)))
          = Contents(byteSinkIo.accepted)
    /\ LET staged == RTake(byteSink.buffer, byteSink.write_cursor) IN
       \A i \in 1..Len(staged) :
          /\ byteSink.read # NoReader
          /\ staged[i].id = byteSink.read.id
    /\ byteSink.read # NoReader =>
          /\ byteSinkIo.accepted # <<>>
          /\ byteSink.read.id = Last(byteSinkIo.accepted).id
    /\ byteSink.read = NoReader =>
          /\ byteSink.write_cursor = 0
          /\ byteSinkIo.written = Contents(byteSinkIo.accepted)

\* A second reader is being copied: part of it is written, part is staged,
\* and the first reader's bytes are all written before it.
C6_Witness ==
    /\ Len(byteSinkIo.accepted) = 2
    /\ byteSinkIo.accepted[1].len > 0
    /\ byteSink.read # NoReader
    /\ byteSink.read.id = byteSinkIo.accepted[2].id
    /\ 0 < byteSink.read_cursor
    /\ byteSink.read_cursor < byteSink.write_cursor
    /\ Len(byteSinkIo.written) = 2

\* C25: start_send with no active reader stores the offered reader and
\* returns Ready without any I/O; with an active reader it makes a
\* poll_complete pass, and then NotReady hands the offered reader back and
\* leaves the active reader in place and the accepted readers as they
\* were, while Ready means the pass has written every byte of the readers
\* accepted before and the offered reader is now the active one.
C25_OneActiveReader ==
    [][byteSinkIo'.op = "start_send" =>
        LET active == byteSink.read # NoReader IN
        /\ ~active =>
              /\ byteSinkIo'.ret.t = "Ready"
              /\ byteSinkIo'.lastIo = "none"
              /\ byteSinkIo'.written = byteSinkIo.written
        /\ active => byteSinkIo'.lastIo # "none"
        /\ byteSinkIo'.ret.t = "Ready" =>
              /\ byteSink'.read.id = byteSinkIo'.offered
              /\ byteSink'.read.pos = 0
              /\ byteSinkIo'.accepted = Append(byteSinkIo.accepted, byteSink'.read)
              /\ byteSinkIo'.written = Contents(byteSinkIo.accepted)
        /\ byteSinkIo'.ret.t = "NotReady" =>
              /\ active
              /\ byteSinkIo'.ret.v = byteSinkIo'.offered
              /\ byteSink'.read.id = byteSink.read.id
              /\ byteSink'.read.len = byteSink.read.len
              /\ byteSinkIo'.accepted = byteSinkIo.accepted
        /\ byteSinkIo'.ret.t \notin {"Ready", "NotReady"} =>
              /\ active
              /\ IsErr(byteSinkIo'.ret)
              /\ byteSinkIo'.accepted = byteSinkIo.accepted]_vars

\* The second reader has been refused while the first, partly written, is
\* still the active one.
C25_Witness ==
    /\ byteSinkIo.op = "start_send"
    /\ byteSinkIo.ret = [t |-> "NotReady", v |-> 2]
    /\ byteSinkIo.offered = 2
    /\ Len(byteSinkIo.accepted) = 1
    /\ byteSink.read.id = 1
    /\ byteSinkIo.written # <<>>
    /\ byteSink.read_cursor < byteSink.write_cursor

\* C31 as stated: a call in which the writer returned 0 for a non-empty
\* staged slice returns an error.
C31_Original == byteSinkIo.zeros > 0 => IsErr(byteSinkIo.ret)

\* The bytes staged and not yet written: buffer[read_cursor..write_cursor].
Staged(b) == Slice(b.buffer, b.read_cursor, b.write_cursor)

\* The answers that make poll_complete return NotReady with a reader active.
NotReadyAnswers == {"poll_read_not_ready", "read_wb", "poll_write_not_ready", "write_wb"}

\* C32: a pass that returns NotReady because the reader or the writer is
\* not ready loses and repeats nothing: what is written, then staged, then
\* unread in the reader is what it was; and a pass that finds staged bytes
\* writes them first, from read_cursor on: as long as it has written fewer
\* bytes than were staged, the reader, the buffer and write_cursor are
\* untouched and read_cursor has advanced by the count written.
C32_ResumesWhereStopped ==
    [][LET k == RLen(byteSinkIo'.written) - RLen(byteSinkIo.written)
           staged == Staged(byteSink)
       IN  /\ (byteSinkIo'.ret.t = "NotReady" /\ byteSinkIo'.lastIo \in NotReadyAnswers) =>
                 /\ RCat(byteSinkIo'.written, RCat(Staged(byteSink'), Unread(byteSink'.read)))
                       = RCat(byteSinkIo.written, RCat(staged, Unread(byteSink.read)))
                 /\ byteSink'.read.id = byteSink.read.id
           /\ RTake(byteSinkIo'.written, RLen(byteSinkIo.written)) = byteSinkIo.written
           /\ k < RLen(staged) =>
                 /\ byteSinkIo'.written = RCat(byteSinkIo.written, RTake(staged, k))
                 /\ byteSink'.read = byteSink.read
                 /\ byteSink'.buffer = byteSink.buffer
                 /\ byteSink'.write_cursor = byteSink.write_cursor
                 /\ byteSink'.read_cursor = byteSink.read_cursor + k
           /\ k >= RLen(staged) =>
                 RTake(byteSinkIo'.written, RLen(byteSinkIo.written) + RLen(staged))
                   = RCat(byteSinkIo.written, staged)]_vars

\* A poll_complete found staged bytes a blocked pass had left, of which one
\* was written already, and has written the rest and everything else.
C32_Witness ==
    /\ byteSinkIo.op = "poll_complete"
    /\ byteSinkIo.resumed = BUFFER_SIZE - 1
    /\ byteSinkIo.failures >= 1
    /\ byteSinkIo.ret.t = "Ready"
    /\ byteSinkIo.written = Contents(byteSinkIo.accepted)

\* C33: 0 <= read_cursor <= write_cursor <= len(buffer) in every state, the
\* buffer being the BUFFER_SIZE bytes it was created with.
C33_CursorInvariant ==
    /\ 0 <= byteSink.read_cursor
    /\ byteSink.read_cursor <= byteSink.write_cursor
    /\ byteSink.write_cursor <= RLen(byteSink.buffer)
    /\ RLen(byteSink.buffer) = BUFFER_SIZE

\* A full buffer is staged and one byte of it is written.
C33_Witness ==
    /\ byteSink.read_cursor = 1
    /\ byteSink.write_cursor = BUFFER_SIZE
    /\ byteSink.read.pos = BUFFER_SIZE
    /\ byteSinkIo.lastIo = "write_wb"

\* C40: ByteSink completes.  With readers and a writer that fail finitely
\* often and an owner that polls again after every answer but Ready,
\* poll_complete returns Ready again and again, each time with no reader
\* active, both cursors 0 and every byte of every accepted reader written.
Drained ==
    /\ Completed
    /\ byteSink.read = NoReader
    /\ byteSink.read_cursor = 0
    /\ byteSink.write_cursor = 0
    /\ byteSinkIo.written = Contents(byteSinkIo.accepted)

C40_EventuallyCompletes == []<>Drained /\ [](Completed => Drained)

C40_Witness ==
    /\ Drained
    /\ byteSinkIo.failures >= 1
    /\ byteSinkIo.calls >= 3
    /\ \E i \in 1..Len(byteSinkIo.accepted) : byteSinkIo.accepted[i].len > BUFFER_SIZE

\* ------------------------------------------------------------------------
\* Properties of EasyBuf
\* ------------------------------------------------------------------------

\* The other windows, alive before and after the step.
Others(w) == {b \in Windows \ {w} : easyBuf.windows[b].live /\ easyBuf'.windows[b].live}

\* C7: get_mut on a window, every mutation through its handle and the drop
\* of the handle leave as_slice() of every other window unchanged, also of
\* the windows that shared the vector by split_off, drain_to or clone.
C7_SharedBufferIsolation ==
    [][easyBufIo'.op \in {"get_mut", "mutate", "drop_mut"} =>
        \A b \in Others(easyBufIo'.w) :
            AsSlice(easyBuf', b) = AsSlice(easyBuf, b)]_vars

\* Window 1 was split, took the copying path of get_mut and has been
\* changed, while the other window still sees bytes of the first vector.
C7_Witness ==
    /\ easyBufIo.op = "mutate"
    /\ easyBufIo.copied
    /\ easyBufIo.handle = 1
    /\ \E b \in Windows \ {1} :
          /\ easyBuf.windows[b].live
          /\ easyBuf.windows[b].buf # easyBuf.windows[1].buf
          /\ AsSlice(easyBuf, b) # <<>>
    /\ \E i \in 1..Len(easyBuf.heap[easyBuf.windows[1].buf]) :
          easyBuf.heap[easyBuf.windows[1].buf][i] = NewByte

\* The window a split_off or drain_to has returned: the one that is alive
\* after the step and was not before.
ReturnedWindow == CHOOSE o \in Windows : easyBuf'.windows[o].live /\ ~easyBuf.windows[o].live

\* 0 <= start <= end <= len(backing)
InBounds(e, w) ==
    /\ 0 <= e.windows[w].start
    /\ e.windows[w].start <= e.windows[w].end
    /\ e.windows[w].end <= Len(e.heap[e.windows[w].buf])

\* C27: split_off(at) with at <= len leaves self on the first at visible
\* bytes and returns a window on the rest, drain_to(at) returns a window on
\* the first at and leaves self on the rest; the two windows are on the
\* vector self was on, which is neither copied nor changed, both are within
\* its bounds, and the other windows stay as they were.
C27_SplitCoversOriginal ==
    [][easyBufIo'.op \in {"split_off", "drain_to"} =>
        LET w == easyBufIo'.w
            o == ReturnedWindow
            at == easyBufIo'.at
            before == AsSlice(easyBuf, w)
            head == IF easyBufIo'.op = "split_off" THEN w ELSE o
            tail == IF easyBufIo'.op = "split_off" THEN o ELSE w
        IN  /\ at <= Len(before)
            /\ AsSlice(easyBuf', head) = Take(before, at)
            /\ AsSlice(easyBuf', tail) = Drop(before, at)
            /\ AsSlice(easyBuf', head) \o AsSlice(easyBuf', tail) = before
            /\ easyBuf'.heap = easyBuf.heap
            /\ easyBuf'.windows[w].buf = easyBuf.windows[w].buf
            /\ easyBuf'.windows[o].buf = easyBuf.windows[w].buf
            /\ InBounds(easyBuf', w)
            /\ InBounds(easyBuf', o)
            /\ \A x \in Windows \ {w, o} : easyBuf'.windows[x] = easyBuf.windows[x]]_vars

\* The split of the test, on three bytes: after split_off(2) self is on the
\* first two bytes and another window on the third.
C27_Witness ==
    /\ easyBufIo.op = "split_off"
    /\ easyBufIo.at = 2
    /\ AsSlice(easyBuf, easyBufIo.w) = <<1, 2>>
    /\ \E o \in Windows \ {easyBufIo.w} :
          /\ easyBuf.windows[o].live
          /\ easyBuf.windows[o].buf = easyBuf.windows[easyBufIo.w].buf
          /\ AsSlice(easyBuf, o) = <<3>>

\* C36 as stated: the vector behind the handle get_mut returns holds the
\* bytes as_slice() gave right before the call, and dropping the handle
\* right away leaves as_slice() on those bytes.
C36_Original ==
    [][LET w == easyBufIo'.w IN
       /\ easyBufIo'.op = "get_mut" =>
             easyBuf'.heap[easyBuf'.windows[w].buf] = AsSlice(easyBuf, w)
       /\ (easyBufIo.op = "get_mut" /\ easyBufIo'.op = "drop_mut") =>
             AsSlice(easyBuf', w) = easyBuf.heap[easyBuf.windows[w].buf]]_vars

\* ------------------------------------------------------------------------
\* Properties of Framed over an EasyBuf
\* ------------------------------------------------------------------------

\* C39: a poll of the EasyBuf-based Framed made while the read buffer holds
\* a complete frame returns Ready(Some) of that frame without a read of
\* the upstream: the bytes are asked for only when the decoder needs them.
C39_Original ==
    [][(easyFramedIo'.polls = easyFramedIo.polls + 1
        /\ ~easyFramed.eof
        /\ RLen(easyFramed.rd) >= FrameLen)
       => (/\ easyFramedIo'.reads = 0
           /\ easyFramedIo'.ret = [t |-> "Some", v |-> RTake(easyFramed.rd, FrameLen)])]_vars

====
